---------------------------- MODULE Spec2Model ----------------------------
(***************************************************************************)
(* Model of the browsing pipeline of the Spotify-clone front end:          *)
(* src/src/components/spotify-main-content.tsx, fetchData (lines 92-513).  *)
(*                                                                         *)
(* One fetch cycle is a chain of asynchronous steps (table discovery, one  *)
(* row fetch per table) followed by one synchronous block that detects,    *)
(* normalizes and classifies every table and publishes the three shelves.  *)
(*                                                                         *)
(* JavaScript strings are TLA+ strings (sequences of characters): Len,     *)
(* SubSeq and \o act on them as .length, .substring and +.                 *)
(***************************************************************************)
EXTENDS Integers, Sequences, FiniteSets, TLC

VARIABLES
    mode,            \* which input universe the environment draws from
    pc,              \* position of fetchData: the await it is suspended at
    tables,          \* local `tables`: the discovered table names
    idx,             \* position of the `for (const table of tables)` loop
    allData,         \* local `allData`, in insertion order: <<[name, data]>>
    requests,        \* row-fetch requests issued so far (table names)
    recentlyPlayed,  \* React state: the three shelves, loading, error
    madeForYou,
    popularAlbums,
    loading,
    error,
    classified,      \* the four accumulators as logged after the table loop
    database,        \* the PostgreSQL database: <<[name, cols, rows]>> in name order
    request,         \* the HTTP request the server handled last
    psql,            \* how the handler's psql invocation ended: none, ok, failed
    response,        \* the HTTP response to `request`
    cli,             \* position of the CLI's resetDatabase
    toDrop,          \* its local `tables` still to be dropped
    loadedAfter,     \* what `cli` was when the page was loaded
    answers,         \* its locals `confirm` and `confirmFinal`, as answered
    cycles,          \* polling variant: the fetchData calls, in start order
    completed,       \* polling variant: the calls that ended, in that order
    agent,           \* the agent's processQuery: position and locals
    files,           \* the project's files: content by path
    sqlLog           \* the commands the agent passed to psql, in order

vars == <<mode, pc, tables, idx, allData, requests,
          recentlyPlayed, madeForYou, popularAlbums, loading, error, classified,
          database, request, psql, response, cli, toDrop, loadedAfter, answers,
          cycles, completed, agent, files, sqlLog>>

---------------------------------------------------------------------------
(* JavaScript values: a string, a number, null or undefined.               *)

Str(s) == [t |-> "str", s |-> s, n |-> 0]
Num(n) == [t |-> "num", s |-> "", n |-> n]
Null == [t |-> "null", s |-> "", n |-> 0]
Undefined == [t |-> "undef", s |-> "", n |-> 0]

\* ToBoolean: "" , 0, null and undefined are falsy.
Truthy(v) ==
    CASE v.t = "str" -> v.s # ""
      [] v.t = "num" -> v.n # 0
      [] OTHER -> FALSE

\* a || b
Or(a, b) == IF Truthy(a) THEN a ELSE b

\* item.key: undefined when the row has no such column.
Get(item, k) == IF k \in DOMAIN item THEN item[k] ELSE Undefined

\* 'key' in item
Has(item, k) == k \in DOMAIN item

---------------------------------------------------------------------------
(* String.prototype functions, computed character by character.            *)

LowerOf ==
    [A |-> "a", B |-> "b", C |-> "c", D |-> "d", E |-> "e", F |-> "f", G |-> "g",
     H |-> "h", I |-> "i", J |-> "j", K |-> "k", L |-> "l", M |-> "m", N |-> "n",
     O |-> "o", P |-> "p", Q |-> "q", R |-> "r", S |-> "s", T |-> "t", U |-> "u",
     V |-> "v", W |-> "w", X |-> "x", Y |-> "y", Z |-> "z"]

LowerChar(c) == IF c \in DOMAIN LowerOf THEN LowerOf[c] ELSE c

RECURSIVE toLowerCase(_)
toLowerCase(s) ==
    IF s = "" THEN ""
    ELSE LowerChar(SubSeq(s, 1, 1)) \o toLowerCase(SubSeq(s, 2, Len(s)))

\* s.includes(sub)
includes(s, sub) ==
    \E i \in 1..(Len(s) - Len(sub) + 1) : SubSeq(s, i, i + Len(sub) - 1) = sub

\* s.includes(k) for some k of ks
includesAny(s, ks) == \E k \in ks : includes(s, k)

\* The characters trim() and \s take for white space, among those that
\* occur here.
WhiteSpace == {" ", "\n", "\t"}

RECURSIVE trimStart(_)
trimStart(s) ==
    IF s # "" /\ SubSeq(s, 1, 1) \in WhiteSpace THEN trimStart(SubSeq(s, 2, Len(s)))
    ELSE s

RECURSIVE trimEnd(_)
trimEnd(s) ==
    IF s # "" /\ SubSeq(s, Len(s), Len(s)) \in WhiteSpace
    THEN trimEnd(SubSeq(s, 1, Len(s) - 1))
    ELSE s

trim(s) == trimEnd(trimStart(s))

---------------------------------------------------------------------------
(* Math.random().  The generator is a linear congruential one over the     *)
(* hundredths 0..99 (full period), so a cycle's draws are a function of    *)
(* the generator state at the cycle's start and no two of the first        *)
(* hundred draws are equal.  u = x / 100.                                  *)

nextRandom(x) == (21 * x + 7) % 100

\* Math.random().toString() for u = x / 100
randomToString(x) ==
    IF x = 0 THEN "0"
    ELSE IF x % 10 = 0 THEN "0." \o ToString(x \div 10)
    ELSE IF x < 10 THEN "0.0" \o ToString(x)
    ELSE "0." \o ToString(x)

\* Math.floor(Math.random() * 300) + 120 for u = x / 100
randomDuration(x) == ((x * 300) \div 100) + 120

---------------------------------------------------------------------------
(* The row normalizer: preferReal and the mappedData callback.             *)

PlaceholderImage == "https://v3.fal.media/files/panda/kvQ0deOgoUWHP04ajVH3A_output.png"

\* The filter of preferReal: a string, not blank, longer than one character,
\* containing none of 'id', 'unknown', 'test' (case-insensitively).
isReal(val) ==
    /\ Truthy(val)
    /\ val.t = "str"
    /\ trim(val.s) # ""
    /\ ~includesAny(toLowerCase(val.s), {"id", "unknown", "test"})
    /\ Len(val.s) > 1

preferReal(val, fallback) == IF isReal(val) THEN val ELSE Str(fallback)

\* `if (item.a) v = item.a else if (item.b) v = item.b ... else v = dflt`
RECURSIVE firstTruthy(_, _, _)
firstTruthy(item, keys, dflt) ==
    IF keys = <<>> THEN Str(dflt)
    ELSE IF Truthy(Get(item, Head(keys))) THEN Get(item, Head(keys))
    ELSE firstTruthy(item, Tail(keys), dflt)

TitleFields == <<"title", "song_name", "track_name", "name", "album", "album_name">>
ArtistFields == <<"artist", "artist_name", "creator">>
AlbumFields == <<"album", "album_name", "albumname">>
ImageFields == <<"image", "cover_image", "cover">>

\* Which arm of the if / else-if chain of the callback a row takes.
branch(item) ==
    IF Has(item, "description") /\ Has(item, "type") THEN "description_type"
    ELSE IF /\ Truthy(Get(item, "artist"))
            /\ Truthy(Get(item, "album"))
            /\ ~Truthy(Get(item, "cover_image")) THEN "artist_album"
    ELSE IF Has(item, "cover_image") THEN "cover_image"
    ELSE IF Has(item, "artist") /\ Has(item, "album") THEN "has_artist_album"
    ELSE "fallback"

\* The fixed fallback placeholder each arm uses for title, artist, album.
titleFallback(b) ==
    CASE b = "description_type" -> "Unknown Playlist"
      [] b = "artist_album" -> "Unknown Playlist"
      [] b = "cover_image" -> "Unknown Album"
      [] b = "has_artist_album" -> "Unknown Track"
      [] OTHER -> "Unknown Title"

artistFallback(b) ==
    IF b = "description_type" THEN "Playlist Description" ELSE "Unknown Artist"

albumFallback(b) ==
    CASE b = "description_type" -> "Playlist Type"
      [] b = "cover_image" -> "Album"
      [] OTHER -> "Unknown Album"

\* Mutant: the fallback arm also tries the artist as a title.
computedTitle_artistAsTitle(item) ==
    IF branch(item) = "fallback"
    THEN preferReal(firstTruthy(item, TitleFields \o <<"artist">>, "Unknown Title"),
                    "Unknown Title")
    ELSE preferReal(Get(item, "title"), titleFallback(branch(item)))

\* The title / artist / album / image expressions of each arm, before the
\* trailing `...item`.
computedTitle(item) ==
    IF branch(item) = "fallback"
    THEN preferReal(firstTruthy(item, TitleFields, "Unknown Title"), "Unknown Title")
    ELSE preferReal(Get(item, "title"), titleFallback(branch(item)))

computedArtist(item) ==
    CASE branch(item) = "description_type" ->
            preferReal(Get(item, "description"), "Playlist Description")
      [] branch(item) = "fallback" ->
            preferReal(firstTruthy(item, ArtistFields, "Unknown Artist"), "Unknown Artist")
      [] OTHER -> preferReal(Get(item, "artist"), "Unknown Artist")

computedAlbum(item) ==
    CASE branch(item) = "description_type" ->
            preferReal(Get(item, "type"), "Playlist Type")
      [] branch(item) = "cover_image" -> preferReal(Get(item, "title"), "Album")
      [] branch(item) = "fallback" ->
            preferReal(firstTruthy(item, AlbumFields, "Unknown Album"), "Unknown Album")
      [] OTHER -> preferReal(Get(item, "album"), "Unknown Album")

computedImage(item) ==
    CASE branch(item) = "description_type" ->
            Or(Get(item, "image_url"), Or(Get(item, "image"), Str(PlaceholderImage)))
      [] branch(item) = "cover_image" ->
            Or(Get(item, "cover_image"), Or(Get(item, "image"), Str(PlaceholderImage)))
      [] branch(item) = "fallback" -> firstTruthy(item, ImageFields, PlaceholderImage)
      [] OTHER -> Or(Get(item, "image"), Str(PlaceholderImage))

\* { ...computed, ...item }: the row's own columns override the computed ones.
Spread(computed, item) ==
    [k \in DOMAIN computed \cup DOMAIN item |->
        IF k \in DOMAIN item THEN item[k] ELSE computed[k]]

\* Mutant: the computed fields come after the spread, and the title is
\* taken from song_name before title.
mappedItem_songNameFirst(item, x) ==
    LET xId == IF Truthy(Get(item, "id")) THEN x ELSE nextRandom(x)
        xDur == IF Truthy(Get(item, "duration")) THEN xId ELSE nextRandom(xId)
        computed ==
            [id |-> Or(Get(item, "id"), Str(randomToString(xId))),
             title |-> preferReal(Or(Get(item, "song_name"), Get(item, "title")),
                                  titleFallback(branch(item))),
             artist |-> computedArtist(item),
             album |-> computedAlbum(item),
             image |-> computedImage(item),
             duration |-> Or(Get(item, "duration"), Num(randomDuration(xDur)))]
    IN [rec |-> Spread(item, computed), x |-> xDur]

\* Mutant: a missing title is replaced by a placeholder made unique with a
\* random suffix.
mappedItem_randomTitle(item, x) ==
    LET xId == IF Truthy(Get(item, "id")) THEN x ELSE nextRandom(x)
        xDur == IF Truthy(Get(item, "duration")) THEN xId ELSE nextRandom(xId)
        computed ==
            [id |-> Or(Get(item, "id"), Str(randomToString(xId))),
             title |-> IF isReal(computedTitle(item)) /\ Has(item, "title")
                       THEN computedTitle(item)
                       ELSE Str("Track " \o randomToString(nextRandom(xDur))),
             artist |-> computedArtist(item),
             album |-> computedAlbum(item),
             image |-> computedImage(item),
             duration |-> Or(Get(item, "duration"), Num(randomDuration(xDur)))]
    IN [rec |-> Spread(computed, item), x |-> xDur]

\* One call of the callback with the generator in state x: the record, and
\* the generator state afterwards.  Math.random is called only when item.id
\* (then item.duration) is falsy.
mappedItem(item, x) ==
    LET xId == IF Truthy(Get(item, "id")) THEN x ELSE nextRandom(x)
        xDur == IF Truthy(Get(item, "duration")) THEN xId ELSE nextRandom(xId)
        computed ==
            [id |-> Or(Get(item, "id"), Str(randomToString(xId))),
             title |-> computedTitle(item),
             artist |-> computedArtist(item),
             album |-> computedAlbum(item),
             image |-> computedImage(item),
             duration |-> Or(Get(item, "duration"), Num(randomDuration(xDur)))]
    IN [rec |-> Spread(computed, item), x |-> xDur]

\* data.map(callback): the records, each with the place of its row (table
\* name, row index), and the generator state afterwards.
RECURSIVE mapRows(_, _, _, _)
mapRows(name, data, i, x) ==
    IF i > Len(data) THEN [out |-> <<>>, x |-> x]
    ELSE LET m == mappedItem(data[i], x)
             rest == mapRows(name, data, i + 1, m.x)
         IN [out |-> <<[rec |-> m.rec, src |-> <<name, i>>]>> \o rest.out,
             x |-> rest.x]

---------------------------------------------------------------------------
(* The music-data detector and the section classifier.                     *)

DetectorKeywords ==
    {"name", "title", "artist", "song", "album", "track", "playlist", "music",
     "id", "image", "cover", "duration", "time"}

\* Mutant: the column name is matched without lower-casing it.
hasMusicData_caseSensitive(firstRow) ==
    \E col \in DOMAIN firstRow : includesAny(col, DetectorKeywords)

\* columns.some(col => col.toLowerCase().includes(...))
hasMusicData(firstRow) ==
    \E col \in DOMAIN firstRow : includesAny(toLowerCase(col), DetectorKeywords)

RecentlyPlayedKeywords ==
    {"recent", "played", "listened", "history", "activity", "song", "track",
     "recently_played", "recent_tracks", "listening_history"}

MadeForYouKeywords ==
    {"made", "for", "you", "personal", "recommend", "playlist", "mix", "weekly",
     "daily", "curated", "personalized", "made_for_you", "personalized_mixes",
     "daily_mixes", "recommended_playlists"}

PopularAlbumsKeywords ==
    {"popular", "album", "trending", "chart", "hit", "top", "new", "release",
     "popular_albums", "trending_albums", "new_releases", "chart_toppers"}

isRecentlyPlayed(tableName) == includesAny(toLowerCase(tableName), RecentlyPlayedKeywords)
isMadeForYou(tableName) == includesAny(toLowerCase(tableName), MadeForYouKeywords)

\* Mutant: tableName is matched instead of tableNameLower.
isPopularAlbums_caseSensitive(tableName) == includesAny(tableName, PopularAlbumsKeywords)

isPopularAlbums(tableName) == includesAny(toLowerCase(tableName), PopularAlbumsKeywords)

\* item.title.toLowerCase() etc. raise a TypeError unless the value is a string.
analysisThrows(mapped) ==
    \E i \in 1..Len(mapped) :
        \/ mapped[i].rec["title"].t # "str"
        \/ mapped[i].rec["artist"].t # "str"
        \/ mapped[i].rec["album"].t # "str"

\* The lower-cased title, artist and album the reducer looks at.
lowered(m) ==
    [title |-> toLowerCase(m.rec["title"].s),
     artist |-> toLowerCase(m.rec["artist"].s),
     album |-> toLowerCase(m.rec["album"].s)]

isPlaylistRow(r) ==
    includesAny(r.title, {"mix", "playlist", "weekly", "daily", "discover", "radar",
                        "on repeat", "time capsule", "chill", "peaceful",
                        "deep focus", "instrumental"})

isAlbumRow(r) ==
    /\ r.album # "unknown album"
    /\ Len(r.album) > 0
    /\ ~includesAny(r.title, {"playlist", "mix", "weekly"})

isSongRow(r) ==
    /\ Len(r.title) > 0
    /\ Len(r.artist) > 0
    /\ ~includesAny(r.title, {"playlist", "mix", "weekly", "daily", "discover", "radar"})

isMadeForYouRow(r) ==
    includesAny(r.title, {"daily mix", "discover weekly", "release radar", "on repeat",
                        "time capsule", "chill hits", "peaceful piano", "deep focus"})

isRecentlyPlayedRow(r) ==
    /\ r.artist # "unknown artist"
    /\ r.title # "unknown title"
    /\ ~includesAny(r.title, {"playlist", "mix", "weekly", "daily"})

isPopularAlbumsRow(r) ==
    /\ r.album # "unknown album"
    /\ Len(r.album) > 0
    /\ ~includesAny(r.title, {"playlist", "mix"})

bump(P) == IF P THEN 1 ELSE 0

\* The reducer, from row i on: the six counters (defined when analysisThrows
\* is false).
RECURSIVE countFrom(_, _)
countFrom(mapped, i) ==
    IF i > Len(mapped)
    THEN [playlistCount |-> 0, albumCount |-> 0, songCount |-> 0,
          madeForYouCount |-> 0, recentlyPlayedCount |-> 0, popularAlbumsCount |-> 0]
    ELSE LET r == lowered(mapped[i])
             c == countFrom(mapped, i + 1)
         IN [playlistCount |-> c.playlistCount + bump(isPlaylistRow(r)),
             albumCount |-> c.albumCount + bump(isAlbumRow(r)),
             songCount |-> c.songCount + bump(isSongRow(r)),
             madeForYouCount |-> c.madeForYouCount + bump(isMadeForYouRow(r)),
             recentlyPlayedCount |-> c.recentlyPlayedCount + bump(isRecentlyPlayedRow(r)),
             popularAlbumsCount |-> c.popularAlbumsCount + bump(isPopularAlbumsRow(r))]

contentAnalysis(mapped) == countFrom(mapped, 1)

\* Priority 1 of assignedSection: the table name.
\* Mutant: the Popular Albums keywords are tested first.
nameSection_popularFirst(tableName) ==
    IF isPopularAlbums(tableName) THEN "popular_albums"
    ELSE IF isRecentlyPlayed(tableName) THEN "recently_played"
    ELSE IF isMadeForYou(tableName) THEN "made_for_you"
    ELSE "none"

nameSection(tableName) ==
    IF isRecentlyPlayed(tableName) THEN "recently_played"
    ELSE IF isMadeForYou(tableName) THEN "made_for_you"
    ELSE IF isPopularAlbums(tableName) THEN "popular_albums"
    ELSE "none"

\* Priority 2 of assignedSection: the content counters.
\* Mutant: the last branch tests recentlyPlayedCount only.
contentSection_withoutSongCount(c) ==
    IF c.madeForYouCount > 0 THEN "made_for_you"
    ELSE IF c.playlistCount > c.songCount /\ c.playlistCount > c.albumCount
         THEN "made_for_you"
    ELSE IF \/ c.popularAlbumsCount > 0
            \/ (c.albumCount > c.songCount /\ c.albumCount > c.playlistCount)
         THEN "popular_albums"
    ELSE IF c.recentlyPlayedCount > 0 THEN "recently_played"
    ELSE "none"

contentSection(c) ==
    IF c.madeForYouCount > 0 THEN "made_for_you"
    ELSE IF c.playlistCount > c.songCount /\ c.playlistCount > c.albumCount
         THEN "made_for_you"
    ELSE IF \/ c.popularAlbumsCount > 0
            \/ (c.albumCount > c.songCount /\ c.albumCount > c.playlistCount)
         THEN "popular_albums"
    ELSE IF c.recentlyPlayedCount > 0 \/ c.songCount > 0 THEN "recently_played"
    ELSE "none"

assignedSection(tableName, mapped) ==
    IF nameSection(tableName) # "none" THEN nameSection(tableName)
    ELSE contentSection(contentAnalysis(mapped))

---------------------------------------------------------------------------
(* The synchronous block: the loop over Object.entries(allData), then the  *)
(* distribution of the unassigned pool.                                    *)

Min(a, b) == IF a < b THEN a ELSE b

\* Math.ceil(n / d)
ceilDiv(n, d) == (n + d - 1) \div d

\* arr.slice(from, to)
slice(arr, from, to) == SubSeq(arr, from + 1, Min(to, Len(arr)))

emptyAcc(x) ==
    [recentlyPlayedData |-> <<>>, madeForYouData |-> <<>>,
     popularAlbumsData |-> <<>>, unassignedData |-> <<>>,
     x |-> x, threw |-> FALSE]

\* `if (assignedSection === ...) xData.push(...mappedData)`
pushTo(acc, section, mapped) ==
    CASE section = "recently_played" ->
            [acc EXCEPT !.recentlyPlayedData = @ \o mapped]
      [] section = "made_for_you" ->
            [acc EXCEPT !.madeForYouData = @ \o mapped]
      [] section = "popular_albums" ->
            [acc EXCEPT !.popularAlbumsData = @ \o mapped]
      [] OTHER ->
            [acc EXCEPT !.unassignedData = @ \o mapped]

\* Mutant: a table without rows leaves a "No data" tile in the pool.
classifyTable_placeholderForEmpty(acc, tableName, data) ==
    IF Len(data) = 0
    THEN pushTo(acc, "unassigned",
                <<[rec |-> [id |-> Str("0"), title |-> Str("No data"),
                            artist |-> Str("Unknown Artist"),
                            album |-> Str("Unknown Album"),
                            image |-> Str(PlaceholderImage),
                            duration |-> Num(120)],
                   src |-> <<tableName, 0>>]>>)
    ELSE IF ~hasMusicData(data[1]) THEN acc
    ELSE LET m == mapRows(tableName, data, 1, acc.x)
         IN IF analysisThrows(m.out) THEN [acc EXCEPT !.threw = TRUE]
            ELSE [pushTo(acc, assignedSection(tableName, m.out), m.out)
                     EXCEPT !.x = m.x]

\* One iteration of the loop: a table with no row or without music data
\* is skipped; a TypeError in the reducer leaves the loop.
classifyTable(acc, tableName, data) ==
    IF Len(data) = 0 \/ ~hasMusicData(data[1]) THEN acc
    ELSE LET m == mapRows(tableName, data, 1, acc.x)
         IN IF analysisThrows(m.out) THEN [acc EXCEPT !.threw = TRUE]
            ELSE [pushTo(acc, assignedSection(tableName, m.out), m.out)
                     EXCEPT !.x = m.x]

RECURSIVE classifyTables(_, _, _)
classifyTables(entries, i, acc) ==
    IF i > Len(entries) \/ acc.threw THEN acc
    ELSE classifyTables(entries, i + 1,
                        classifyTable(acc, entries[i].name, entries[i].data))

\* Mutant: a top-up takes up to six rows, whatever the divisor.
topUpSize_takesAll(shelf, pool, d) ==
    IF Len(shelf) = 0 /\ Len(pool) > 0 THEN Min(6, Len(pool)) ELSE 0

\* One top-up: `if (xData.length === 0 && unassignedData.length > 0)` with
\* chunkSize = Math.min(6, Math.ceil(unassignedData.length / d)).
topUpSize(shelf, pool, d) ==
    IF Len(shelf) = 0 /\ Len(pool) > 0 THEN Min(6, ceilDiv(Len(pool), d)) ELSE 0

\* Mutant: the top-ups copy with slice() instead of removing with splice().
distributeUnassigned_keepsPool(acc) ==
    LET un0 == acc.unassignedData
        c1 == topUpSize(acc.recentlyPlayedData, un0, 3)
        rp1 == acc.recentlyPlayedData \o slice(un0, 0, c1)
        c2 == topUpSize(acc.madeForYouData, un0, 2)
        mfy1 == acc.madeForYouData \o slice(un0, 0, c2)
        c3 == topUpSize(acc.popularAlbumsData, un0, 1)
        pa1 == acc.popularAlbumsData \o slice(un0, 0, c3)
        chunkSize == ceilDiv(Len(un0), 3)
    IN [recentlyPlayedData |-> rp1 \o slice(un0, 0, chunkSize),
        madeForYouData |-> mfy1 \o slice(un0, chunkSize, chunkSize * 2),
        popularAlbumsData |-> pa1 \o slice(un0, chunkSize * 2, Len(un0))]

\* DISTRIBUTE UNASSIGNED DATA INTELLIGENTLY
distributeUnassigned(acc) ==
    LET un0 == acc.unassignedData
        c1 == topUpSize(acc.recentlyPlayedData, un0, 3)
        rp1 == acc.recentlyPlayedData \o slice(un0, 0, c1)
        un1 == slice(un0, c1, Len(un0))
        c2 == topUpSize(acc.madeForYouData, un1, 2)
        mfy1 == acc.madeForYouData \o slice(un1, 0, c2)
        un2 == slice(un1, c2, Len(un1))
        c3 == topUpSize(acc.popularAlbumsData, un2, 1)
        pa1 == acc.popularAlbumsData \o slice(un2, 0, c3)
        un3 == slice(un2, c3, Len(un2))
        chunkSize == ceilDiv(Len(un3), 3)
    IN [recentlyPlayedData |-> rp1 \o slice(un3, 0, chunkSize),
        madeForYouData |-> mfy1 \o slice(un3, chunkSize, chunkSize * 2),
        popularAlbumsData |-> pa1 \o slice(un3, chunkSize * 2, Len(un3))]

\* allData[table] = data
put(entries, tableName, data) ==
    IF \E i \in 1..Len(entries) : entries[i].name = tableName
    THEN [i \in 1..Len(entries) |->
            IF entries[i].name = tableName
            THEN [name |-> tableName, data |-> data] ELSE entries[i]]
    ELSE Append(entries, [name |-> tableName, data |-> data])

---------------------------------------------------------------------------
(* psql's aligned output, and the two read endpoints that parse it.  A     *)
(* database table is [name, cols, rows]: rows are sequences of cells, one  *)
(* per column, a NULL cell being printed as the empty string.              *)

NL == "\n"

\* s.split(ch) for a one-character separator
RECURSIVE split(_, _)
split(s, ch) ==
    IF ~includes(s, ch) THEN <<s>>
    ELSE LET i == CHOOSE k \in 1..Len(s) :
                      /\ SubSeq(s, k, k) = ch
                      /\ \A j \in 1..(k - 1) : SubSeq(s, j, j) # ch
         IN <<SubSeq(s, 1, i - 1)>> \o split(SubSeq(s, i + 1, Len(s)), ch)

RECURSIVE repeat(_, _)
repeat(ch, n) == IF n <= 0 THEN "" ELSE ch \o repeat(ch, n - 1)

RECURSIVE joinWith(_, _)
joinWith(parts, sep) ==
    IF Len(parts) = 0 THEN ""
    ELSE IF Len(parts) = 1 THEN parts[1]
    ELSE parts[1] \o sep \o joinWith(Tail(parts), sep)

Max(a, b) == IF a > b THEN a ELSE b

RECURSIVE maxLen(_)
maxLen(strs) == IF strs = <<>> THEN 0 ELSE Max(Len(Head(strs)), maxLen(Tail(strs)))

\* The printed width of column j.
columnWidth(t, j) ==
    Max(Len(t.cols[j]), maxLen([i \in 1..Len(t.rows) |-> t.rows[i][j]]))

\* One line of the aligned format: cells padded to the column width and
\* joined with " | ".
psqlLine(t, cells) ==
    " " \o joinWith([j \in 1..Len(cells) |->
                        cells[j] \o repeat(" ", columnWidth(t, j) - Len(cells[j]))],
                    " | ")

psqlFooter(n) == IF n = 1 THEN "(1 row)" ELSE "(" \o ToString(n) \o " rows)"

\* stdout of: psql -c 'SELECT * FROM "<table>" LIMIT 10;'
psqlSelect(t) ==
    LET shown == SubSeq(t.rows, 1, Min(Len(t.rows), 10))
    IN joinWith(<<psqlLine(t, t.cols),
                  joinWith([j \in 1..Len(t.cols) |-> repeat("-", columnWidth(t, j) + 2)],
                           "+")>>
                \o [i \in 1..Len(shown) |-> psqlLine(t, shown[i])]
                \o <<psqlFooter(Len(shown)), "", "">>,
                NL)

\* stdout of: psql -c "\dt"  (nothing on stdout when there is no relation)
psqlListTables(db) ==
    IF Len(db) = 0 THEN ""
    ELSE LET listing ==
                 [name |-> "",
                  cols |-> <<"Schema", "Name", "Type", "Owner">>,
                  rows |-> [i \in 1..Len(db) |->
                               <<"public", db[i].name, "table", "postgres">>]]
         IN joinWith(<<"       List of relations",
                       psqlLine(listing, listing.cols),
                       joinWith([j \in 1..4 |-> repeat("-", columnWidth(listing, j) + 2)],
                                "+")>>
                     \o [i \in 1..Len(db) |-> psqlLine(listing, listing.rows[i])]
                     \o <<psqlFooter(Len(db)), "", "">>,
                     NL)

\* strs.map(s => s.trim())
trimAll(strs) == [i \in 1..Len(strs) |-> trim(strs[i])]

\* The loop of the tables endpoint over the lines of the listing.
RECURSIVE tableNames(_, _)
tableNames(lines, i) ==
    IF i > Len(lines) THEN <<>>
    ELSE LET line == lines[i]
             parts == trimAll(split(line, "|"))
             listed ==
                 /\ includes(line, "|")
                 /\ ~includes(line, "Schema")
                 /\ ~includes(line, "----")
                 /\ Len(parts) >= 3
                 /\ parts[2] # ""
                 /\ parts[2] # "Name"
                 /\ ~includes(parts[2], "_seq")
         IN (IF listed THEN <<parts[2]>> ELSE <<>>) \o tableNames(lines, i + 1)

\* GET /api/db/tables when psql succeeded
tablesBody(stdout) == [tables |-> tableNames(split(stdout, NL), 1)]

\* The first loop of the row endpoint: the header is the line before a
\* separator line, the data rows are the later non-blank lines that contain
\* neither "(" nor "row".
RECURSIVE scanLines(_, _, _)
scanLines(lines, i, st) ==
    IF i > Len(lines) THEN st
    ELSE LET line == lines[i]
         IN IF trim(line) = "" THEN scanLines(lines, i + 1, st)
            ELSE IF includes(line, "----")
            THEN scanLines(lines, i + 1,
                           [st EXCEPT !.headerLine = IF i > 1 THEN lines[i - 1] ELSE @,
                                      !.inDataSection = TRUE])
            ELSE IF st.inDataSection /\ ~includes(line, "(") /\ ~includes(line, "row")
            THEN scanLines(lines, i + 1, [st EXCEPT !.dataRows = Append(@, trim(line))])
            ELSE scanLines(lines, i + 1, st)

\* columns.filter(c => c)
RECURSIVE nonEmpty(_)
nonEmpty(strs) ==
    IF strs = <<>> THEN <<>>
    ELSE (IF Head(strs) = "" THEN <<>> ELSE <<Head(strs)>>) \o nonEmpty(Tail(strs))

\* `for (i < columns.length && i < values.length) row[columns[i]] = values[i]`
parsedRow(columns, values) ==
    LET n == Min(Len(columns), Len(values))
    IN [c \in {columns[i] : i \in 1..n} |->
            Str(values[CHOOSE i \in 1..n :
                          /\ columns[i] = c
                          /\ \A j \in (i + 1)..n : columns[j] # c])]

RECURSIVE parsedRows(_, _, _)
parsedRows(columns, dataRows, i) ==
    IF i > Len(dataRows) THEN <<>>
    ELSE LET row == parsedRow(columns, trimAll(split(dataRows[i], "|")))
         IN (IF DOMAIN row = {} THEN <<>> ELSE <<row>>)
            \o parsedRows(columns, dataRows, i + 1)

\* GET /api/db?table=T when psql succeeded
dataBody(stdout) ==
    LET st == scanLines(split(stdout, NL), 1,
                        [headerLine |-> "", dataRows |-> <<>>, inDataSection |-> FALSE])
    IN [data |-> IF st.headerLine # "" /\ Len(st.dataRows) > 0
                 THEN parsedRows(nonEmpty(trimAll(split(st.headerLine, "|"))),
                                 st.dataRows, 1)
                 ELSE <<>>]

---------------------------------------------------------------------------
(* What the two read endpoints can answer.  The table list is in name      *)
(* order, as psql's \dt prints it, and the rows of one table share their   *)
(* columns.                                                                *)

MaxTables == 3
MaxRows == 7
MaxTableRows == 2
MaxCols == 3

\* The subsequence of `names` at the positions in `keep`.
RECURSIVE pick(_, _, _)
pick(names, keep, i) ==
    IF i > Len(names) THEN <<>>
    ELSE (IF i \in keep THEN <<names[i]>> ELSE <<>>) \o pick(names, keep, i + 1)

listsOf(names, max) ==
    {pick(names, keep, 1) :
        keep \in {k \in SUBSET (1..Len(names)) : Cardinality(k) <= max}}

\* All sequences over S of length at most n.
seqsUpTo(S, n) == UNION {[1..k -> S] : k \in 0..n}

\* "cycle": up to MaxTables tables, each with rows of one kind.
CycleNames ==
    <<"made_for_you", "mystery_log", "mystery_music", "popular_albums", "recently_played">>

songRow(i) ==
    [id |-> Str(ToString(i)), title |-> Str("Cruel Summer"), artist |-> Str("Taylor Swift")]

\* A row whose title cell is NULL: the row endpoint yields "" for it.
blankRow(i) == [id |-> Str(ToString(i)), title |-> Str("")]

CycleData ==
    {<<>>}
    \cup {<<songRow(1)>>}
    \cup {[i \in 1..n |-> blankRow(i)] : n \in {3, MaxRows}}

\* "table": one table, any of these names, up to MaxTableRows rows.
TableNames ==
    {"popular_albums", "popular_songs", "Popular_Playlists", "Popular_Picks", "top_hits",
     "recently_played_songs", "made_for_you", "weekly_mixes",
     "mystery_music", "weird_table_1"}

TableRows ==
    {songRow(1),
     blankRow(2),
     [foo |-> Str("bar")],
     [TITLE |-> Str("Loud")],
     [title |-> Str("Deep Focus"), artist |-> Str("curated playlist for studying")],
     [title |-> Str("Chill Mix"), artist |-> Str("Various")],
     [id |-> Str("1"), title |-> Str("Midnights"), artist |-> Str("Taylor Swift"),
      cover_image |-> Str("https://img/midnights.png")],
     [title |-> Str("Blue"), artist |-> Str("Joni Mitchell"), album |-> Str("Blue")]}

\* "row": one table with one row of up to MaxCols columns, each cell empty,
\* a presentable value or a value the prefer-real filter rejects.
RowColumns ==
    {"id", "title", "song_name", "name", "album", "artist",
     "description", "type", "cover_image", "duration"}

goodValue(col) ==
    CASE col = "id" -> "7"
      [] col = "duration" -> "215"
      [] OTHER -> "My " \o col

badValue(col) ==
    CASE col = "title" -> "Song ID 7"
      [] col = "artist" -> "Unknown"
      [] col = "album" -> "Test Album"
      [] col = "name" -> "x"
      [] col = "song_name" -> "  "
      [] OTHER -> col \o "_id"

RowPool ==
    UNION {{[c \in cols |->
                CASE pat[c] = "empty" -> Str("")
                  [] pat[c] = "good" -> Str(goodValue(c))
                  [] OTHER -> Str(badValue(c))] :
            pat \in [cols -> {"empty", "good", "bad"}]} :
           cols \in {k \in SUBSET RowColumns : Cardinality(k) \in 1..MaxCols}}

\* "content": one table without name keyword, up to MaxContentRows rows
\* with playlist-phrased, song-like and album-like titles.
MaxContentRows == 3

ContentRows ==
    {[title |-> Str("Deep Focus"), artist |-> Str("curated playlist for studying")],
     [title |-> Str("Peaceful Morning"), artist |-> Str("Various")],
     [title |-> Str("Cruel Summer"), artist |-> Str("Taylor Swift")],
     [title |-> Str("Blue"), artist |-> Str("Joni Mitchell"), album |-> Str("Blue")],
     [title |-> Str("Anti-Hero")],
     [title |-> Str("Daily Drive"), artist |-> Str("Spotify"),
      album |-> Str("Daily Drive")],
     [title |-> Str(""), description |-> Str("untitled")]}

\* "shape": one table with one row of up to MaxCols columns, each value a
\* string, a number or null, as a typed row endpoint serializes them.
ShapeColumns == {"id", "title", "artist", "album"}

ShapeValues == {Str("Blue"), Num(7), Null}

ShapePool ==
    UNION {[cols -> ShapeValues] :
           cols \in {k \in SUBSET ShapeColumns : Cardinality(k) \in 1..MaxCols}}

\* "api": the database behind the endpoints.  Tables are kept in name
\* order; recently_played has up to MaxDbRows rows.
MaxDbRows == 2

DbCells == {"Blue", "Intro (live)", "Tomorrow", ""}

dbTable(name, titles) ==
    [name |-> name,
     cols |-> <<"id", "title">>,
     rows |-> [i \in 1..Len(titles) |-> <<ToString(i), titles[i]>>]]

DbChoices ==
    {made \o recent :
        made \in {<<>>, <<dbTable("made_for_you", <<"Daily Mix">>)>>},
        recent \in {<<>>} \cup {<<dbTable("recently_played", ts)>> :
                                    ts \in seqsUpTo(DbCells, MaxDbRows)}}

\* "app": the page and the CLI over one database.
AppDbChoices ==
    {made \o recent :
        made \in {<<>>, <<dbTable("made_for_you", <<"Daily Mix">>)>>},
        recent \in {<<>>, <<dbTable("recently_played", <<"Blue">>)>>,
                    <<dbTable("recently_played", <<"Blue", "Tomorrow">>)>>}}

RequestTables == {"made_for_you", "popular_albums", "recently_played"}

NoBody == [none |-> ""]

NoRequest == [method |-> "", path |-> "", table |-> "", body |-> NoBody]

\* JSON bodies of POST /api/db: the {table, data} form the client helpers
\* send, and bodies with userId and songId at the top level.
PostBodies ==
    {[table |-> Str(t), data |-> [title |-> Str("Blue")]] : t \in RequestTables}
    \cup {[userId |-> Num(1), songId |-> Num(2)],
          [userId |-> Num(1)],
          [userId |-> Num(0), songId |-> Num(2)]}
NoResponse == [status |-> 0, body |-> [none |-> ""]]

\* What the row endpoint answers for `table`: the parsed rows, or [] from
\* its catch (psql fails when the table is missing or the server is down).
rowAnswers(table) ==
    {<<>>} \cup
    {dataBody(psqlSelect(database[i])).data :
        i \in {j \in 1..Len(database) : database[j].name = table}}

TableLists(m) ==
    CASE m = "cycle" -> listsOf(CycleNames, MaxTables)
      [] m = "app" -> {<<>>, tablesBody(psqlListTables(database)).tables}
      [] m = "table" -> {<<>>} \cup {<<n>> : n \in TableNames}
      [] OTHER -> {<<>>, <<"mystery_music">>}

DataChoices(m) ==
    CASE m = "cycle" -> CycleData
      [] m = "table" -> seqsUpTo(TableRows, MaxTableRows)
      [] m = "shape" -> {<<r>> : r \in ShapePool}
      [] m = "content" -> seqsUpTo(ContentRows, MaxContentRows)
      [] OTHER -> {<<r>> : r \in RowPool}

Seeds == {0, 50}

\* "agent": the files and the database the agent starts from.
TargetFile == "src/app/api/songs/route.ts"

NoFiles == [p \in {} |-> ""]

FileChoices == {NoFiles, [p \in {TargetFile} |-> "export const revalidate = 0"]}

AgentDbChoices == {<<>>, <<dbTable("recently_played", <<"Blue">>)>>}

IdleAgent ==
    [pc |-> "idle", existingTables |-> <<>>, aiResponse |-> "", sqlCommands |-> <<>>,
     k |-> 0, tsFiles |-> <<>>, f |-> 0, backupPath |-> "", backups |-> <<>>,
     c |-> 0, outcomes |-> <<>>, failed |-> "", before |-> NoFiles,
     db0 |-> <<>>, files0 |-> NoFiles]

---------------------------------------------------------------------------
(* One fetch cycle.  pc names the await fetchData is suspended at, or how  *)
(* the cycle ended: no_tables, published, caught.                          *)

Shelves == <<recentlyPlayed, madeForYou, popularAlbums>>
Locals == <<tables, idx, allData, requests>>
Server == <<database, request, psql, response>>
Cli == <<cli, toDrop, loadedAfter, answers>>
Poller == <<cycles, completed>>
Agent == <<agent, files, sqlLog>>
Elsewhere == <<Poller, Agent>>
Backend == <<Server, Cli>>

NoClassification ==
    [recentlyPlayedData |-> <<>>, madeForYouData |-> <<>>,
     popularAlbumsData |-> <<>>, unassignedData |-> <<>>]

InitWith(m) ==
    /\ mode = m
    /\ pc = (IF m \in {"app", "poll"} THEN "unmounted" ELSE "tables_fetch")
    /\ tables = <<>>
    /\ idx = 0
    /\ allData = <<>>
    /\ requests = <<>>
    /\ recentlyPlayed = <<>>
    /\ madeForYou = <<>>
    /\ popularAlbums = <<>>
    /\ loading = TRUE
    /\ error = "null"
    /\ classified = NoClassification
    /\ database \in (CASE m = "api" -> DbChoices
                       [] m = "app" -> AppDbChoices
                       [] m = "agent" -> AgentDbChoices
                       [] OTHER -> {<<>>})
    /\ cli = "idle"
    /\ toDrop = <<>>
    /\ loadedAfter = "idle"
    /\ answers = <<>>
    /\ cycles = <<>>
    /\ completed = <<>>
    /\ agent = IdleAgent
    /\ files \in (IF m = "agent" THEN FileChoices ELSE {NoFiles})
    /\ sqlLog = <<>>
    /\ request = NoRequest
    /\ psql = "none"
    /\ response = NoResponse

Init == InitWith("cycle")

\* Mutant: the zero-tables return forgets setLoading(false).
NoTables_keepsLoading ==
    /\ recentlyPlayed' = <<>>
    /\ madeForYou' = <<>>
    /\ popularAlbums' = <<>>
    /\ pc' = "no_tables"
    /\ UNCHANGED <<loading, error, classified>>

\* `if (tables.length === 0) { set...([]); setLoading(false); return }`
NoTables ==
    /\ recentlyPlayed' = <<>>
    /\ madeForYou' = <<>>
    /\ popularAlbums' = <<>>
    /\ loading' = FALSE
    /\ pc' = "no_tables"
    /\ UNCHANGED <<error, classified>>

\* Mutant: the catch forgets setLoading(false).
Caught_keepsLoading ==
    /\ recentlyPlayed' = <<>>
    /\ madeForYou' = <<>>
    /\ popularAlbums' = <<>>
    /\ pc' = "caught"
    /\ UNCHANGED <<loading, error, classified>>

\* The outer catch.
Caught ==
    /\ recentlyPlayed' = <<>>
    /\ madeForYou' = <<>>
    /\ popularAlbums' = <<>>
    /\ loading' = FALSE
    /\ pc' = "caught"
    /\ UNCHANGED <<error, classified>>

\* Mutant: setMadeForYou is not called.
Publish_skipsMadeForYou(r) ==
    /\ recentlyPlayed' = r.recentlyPlayedData
    /\ madeForYou' = madeForYou
    /\ popularAlbums' = r.popularAlbumsData
    /\ loading' = FALSE
    /\ pc' = "published"
    /\ UNCHANGED error

\* The end of the try block: the three setters and setLoading(false).
Publish(r) ==
    /\ recentlyPlayed' = r.recentlyPlayedData
    /\ madeForYou' = r.madeForYouData
    /\ popularAlbums' = r.popularAlbumsData
    /\ loading' = FALSE
    /\ pc' = "published"
    /\ UNCHANGED error

\* Everything after the fetch loop, with the generator in state x.
Process(entries, x) ==
    \E acc \in {classifyTables(entries, 1, emptyAcc(x))} :
        IF acc.threw
        THEN Caught
        ELSE /\ \E r \in {distributeUnassigned(acc)} : Publish(r)
             /\ classified' = [recentlyPlayedData |-> acc.recentlyPlayedData,
                               madeForYouData |-> acc.madeForYouData,
                               popularAlbumsData |-> acc.popularAlbumsData,
                               unassignedData |-> acc.unassignedData]

\* After the row fetch of tables[idx] is settled: the next request, or the
\* synchronous block.
Advance(entries) ==
    /\ allData' = entries
    /\ IF idx < Len(tables)
       THEN /\ idx' = idx + 1
            /\ requests' = Append(requests, tables[idx + 1])
            /\ pc' = "row_fetch"
            /\ UNCHANGED <<Shelves, loading, error, classified>>
       ELSE /\ \E x \in Seeds : Process(entries, x)
            /\ UNCHANGED <<idx, requests>>

\* fetch('/api/db/tables') resolves with an OK response.
TablesResponseOk ==
    /\ pc = "tables_fetch"
    /\ pc' = "tables_json"
    /\ UNCHANGED <<mode, Elsewhere, Backend, Locals, Shelves, loading, error, classified>>

\* It resolves with a non-OK response: tables stays [].
TablesResponseNotOk ==
    /\ pc = "tables_fetch"
    /\ NoTables
    /\ UNCHANGED <<mode, Elsewhere, Backend, Locals>>

\* It rejects.
TablesFetchThrows ==
    /\ pc = "tables_fetch"
    /\ Caught
    /\ UNCHANGED <<mode, Elsewhere, Backend, Locals>>

\* tablesResponse.json() resolves: `tables = json.tables || []`.
TablesJson ==
    /\ pc = "tables_json"
    /\ \E ts \in TableLists(mode) :
        /\ tables' = ts
        /\ IF Len(ts) = 0
           THEN NoTables /\ UNCHANGED <<idx, allData, requests>>
           ELSE /\ idx' = 1
                /\ requests' = Append(requests, ts[1])
                /\ pc' = "row_fetch"
                /\ UNCHANGED <<allData, Shelves, loading, error, classified>>
    /\ UNCHANGED <<mode, Elsewhere, Backend>>

\* tablesResponse.json() rejects.
TablesJsonThrows ==
    /\ pc = "tables_json"
    /\ Caught
    /\ UNCHANGED <<mode, Elsewhere, Backend, Locals>>

\* fetch(`/api/db?table=...`) resolves with an OK response.
RowResponseOk ==
    /\ pc = "row_fetch"
    /\ pc' = "row_json"
    /\ UNCHANGED <<mode, Elsewhere, Backend, Locals, Shelves, loading, error, classified>>

\* It resolves with a non-OK response: allData gets no entry for the table.
RowResponseNotOk ==
    /\ pc = "row_fetch"
    /\ Advance(allData)
    /\ UNCHANGED <<mode, Elsewhere, Backend, tables>>

\* It rejects: the inner catch sets allData[table] = [].
RowFetchThrows ==
    /\ pc = "row_fetch"
    /\ Advance(put(allData, tables[idx], <<>>))
    /\ UNCHANGED <<mode, Elsewhere, Backend, tables>>

\* dataResponse.json() resolves: `allData[table] = data.data || []`.
RowJson ==
    /\ pc = "row_json"
    /\ \E data \in (IF mode = "app" THEN rowAnswers(tables[idx]) ELSE DataChoices(mode)) :
          Advance(put(allData, tables[idx], data))
    /\ UNCHANGED <<mode, Elsewhere, Backend, tables>>

\* dataResponse.json() rejects: the inner catch again.
RowJsonThrows ==
    /\ pc = "row_json"
    /\ Advance(put(allData, tables[idx], <<>>))
    /\ UNCHANGED <<mode, Elsewhere, Backend, tables>>

Next ==
    \/ TablesResponseOk
    \/ TablesResponseNotOk
    \/ TablesFetchThrows
    \/ TablesJson
    \/ TablesJsonThrows
    \/ RowResponseOk
    \/ RowResponseNotOk
    \/ RowFetchThrows
    \/ RowJson
    \/ RowJsonThrows

Spec == Init /\ [][Next]_vars

\* The same cycle over the other input universes.
SpecTable == InitWith("table") /\ [][Next]_vars
SpecRow == InitWith("row") /\ [][Next]_vars
SpecShape == InitWith("shape") /\ [][Next]_vars
SpecContent == InitWith("content") /\ [][Next]_vars

\* Every pending fetch or json() promise is eventually settled.
SpecLive == InitWith("table") /\ [][Next]_vars /\ WF_vars(Next)

---------------------------------------------------------------------------
(* The polling variant of the component (src/unnamed/part_005): the effect *)
(* calls fetchData on mount and again from setInterval every 5 seconds,    *)
(* whether or not an earlier call is still awaiting.  Each call has its    *)
(* own locals; the shelves and `loading` are the shared React state.       *)

MaxCycles == 2

PollRecentlyPlayedKeywords ==
    {"recent", "played", "listened", "history", "song", "track"}

PollMadeForYouKeywords ==
    {"made", "for", "you", "personal", "recommend", "playlist", "mix", "weekly", "daily"}

PollPopularAlbumsKeywords ==
    {"popular", "album", "trending", "chart", "hit", "top", "new", "release"}

\* The if / else-if chain over tableNameLower.
pollSection(tableName) ==
    LET tableNameLower == toLowerCase(tableName)
    IN IF includesAny(tableNameLower, PollRecentlyPlayedKeywords) THEN "recently_played"
       ELSE IF includesAny(tableNameLower, PollMadeForYouKeywords) THEN "made_for_you"
       ELSE IF includesAny(tableNameLower, PollPopularAlbumsKeywords) THEN "popular_albums"
       ELSE "none"

\* The callback of data.map: a record of six computed fields; the row's
\* own fields are not copied.
pollMappedItem(item, x) ==
    LET xId == IF Truthy(Get(item, "id")) THEN x ELSE nextRandom(x)
        xDur == IF Truthy(Get(item, "duration")) THEN xId ELSE nextRandom(xId)
    IN [rec |-> [id |-> Or(Get(item, "id"), Str(randomToString(xId))),
                 title |-> preferReal(firstTruthy(item, TitleFields, "Unknown Title"),
                                      "Unknown Title"),
                 artist |-> preferReal(firstTruthy(item, ArtistFields, "Unknown Artist"),
                                       "Unknown Artist"),
                 album |-> preferReal(firstTruthy(item, AlbumFields, "Unknown Album"),
                                      "Unknown Album"),
                 image |-> firstTruthy(item, ImageFields, PlaceholderImage),
                 duration |-> Or(Get(item, "duration"), Num(randomDuration(xDur)))],
        x |-> xDur]

\* data.map(callback): the records, each with the place of its row.
RECURSIVE pollMapRows(_, _, _, _)
pollMapRows(name, data, i, x) ==
    IF i > Len(data) THEN [out |-> <<>>, x |-> x]
    ELSE LET m == pollMappedItem(data[i], x)
             rest == pollMapRows(name, data, i + 1, m.x)
         IN [out |-> <<[rec |-> m.rec, src |-> <<name, i>>]>> \o rest.out,
             x |-> rest.x]

pollEmptyAcc(x) ==
    [recentlyPlayedData |-> <<>>, madeForYouData |-> <<>>,
     popularAlbumsData |-> <<>>, allMusicData |-> <<>>, x |-> x]

\* One iteration of the loop over Object.entries(allData).
pollClassifyTable(acc, tableName, data) ==
    IF Len(data) = 0 \/ ~hasMusicData(data[1]) THEN acc
    ELSE LET m == pollMapRows(tableName, data, 1, acc.x)
             section == pollSection(tableName)
         IN CASE section = "recently_played" ->
                    [acc EXCEPT !.recentlyPlayedData = @ \o m.out, !.x = m.x]
              [] section = "made_for_you" ->
                    [acc EXCEPT !.madeForYouData = @ \o m.out, !.x = m.x]
              [] section = "popular_albums" ->
                    [acc EXCEPT !.popularAlbumsData = @ \o m.out, !.x = m.x]
              [] OTHER ->
                    [acc EXCEPT !.allMusicData = @ \o m.out, !.x = m.x]

RECURSIVE pollClassifyTables(_, _, _)
pollClassifyTables(entries, i, acc) ==
    IF i > Len(entries) THEN acc
    ELSE pollClassifyTables(entries, i + 1,
                            pollClassifyTable(acc, entries[i].name, entries[i].data))

\* The end of the try block: the top-ups of empty shelves from thirds of
\* allMusicData when a table was mapped by name, the even split otherwise.
pollDistribute(acc) ==
    LET all == acc.allMusicData
        chunkSize == ceilDiv(Len(all), 3)
    IN IF \/ Len(acc.recentlyPlayedData) > 0
          \/ Len(acc.madeForYouData) > 0
          \/ Len(acc.popularAlbumsData) > 0
       THEN [recentlyPlayedData |->
                 IF Len(acc.recentlyPlayedData) = 0 /\ Len(all) > 0
                 THEN slice(all, 0, chunkSize) ELSE acc.recentlyPlayedData,
             madeForYouData |->
                 IF Len(acc.madeForYouData) = 0 /\ Len(all) > 0
                 THEN slice(all, chunkSize, chunkSize + chunkSize)
                 ELSE acc.madeForYouData,
             popularAlbumsData |->
                 IF Len(acc.popularAlbumsData) = 0 /\ Len(all) > 0
                 THEN slice(all, chunkSize * 2, Len(all))
                 ELSE acc.popularAlbumsData]
       ELSE [recentlyPlayedData |-> slice(all, 0, chunkSize),
             madeForYouData |-> slice(all, chunkSize, chunkSize * 2),
             popularAlbumsData |-> slice(all, chunkSize * 2, Len(all))]

\* What the synchronous block computes from a call's allData.
pollShelves(entries, x) ==
    pollDistribute(pollClassifyTables(entries, 1, pollEmptyAcc(x)))

NoShelves ==
    [recentlyPlayedData |-> <<>>, madeForYouData |-> <<>>, popularAlbumsData |-> <<>>]

\* The tables and rows the endpoints answer with while the page polls.
PollTableLists == {<<>>, <<"songs">>, <<"misc", "songs">>}

PollData ==
    {<<[id |-> Str("1"), title |-> Str("Blue"), artist |-> Str("Joni Mitchell")]>>,
     <<[id |-> Str("1"), title |-> Str("Hejira"), artist |-> Str("Joni Mitchell")],
       [id |-> Str("2"), title |-> Str("Amelia"), artist |-> Str("Joni Mitchell")]>>}

\* A call of fetchData that reached its first await.
NewCycle ==
    [pc |-> "tables_fetch", tables |-> <<>>, idx |-> 0, allData |-> <<>>,
     received |-> <<>>, x |-> 0]

Current == <<pc, Locals, error, classified>>

\* The effect runs: fetchData() is called, up to `await fetch(...)`.
PollMount ==
    /\ mode = "poll"
    /\ cycles = <<>>
    /\ cycles' = <<NewCycle>>
    /\ loading' = TRUE
    /\ UNCHANGED <<mode, Agent, Current, Shelves, Backend, completed>>

\* The interval fires: fetchData() is called again.
PollTick ==
    /\ cycles # <<>>
    /\ Len(cycles) < MaxCycles
    /\ cycles' = Append(cycles, NewCycle)
    /\ loading' = TRUE
    /\ UNCHANGED <<mode, Agent, Current, Shelves, Backend, completed>>

\* Mutant: a call that ends after a later call has ended leaves the
\* shelves alone.
PollEnd_unlessSuperseded(cs, c, how, r, x) ==
    /\ cycles' = [cs EXCEPT ![c].pc = how, ![c].x = x]
    /\ completed' = Append(completed, c)
    /\ IF \E k \in 1..Len(completed) : completed[k] > c
       THEN UNCHANGED <<Shelves, loading>>
       ELSE /\ recentlyPlayed' = r.recentlyPlayedData
            /\ madeForYou' = r.madeForYouData
            /\ popularAlbums' = r.popularAlbumsData
            /\ loading' = FALSE

\* A call ends: the three setters and setLoading(false).
PollEnd(cs, c, how, r, x) ==
    /\ cycles' = [cs EXCEPT ![c].pc = how, ![c].x = x]
    /\ completed' = Append(completed, c)
    /\ recentlyPlayed' = r.recentlyPlayedData
    /\ madeForYou' = r.madeForYouData
    /\ popularAlbums' = r.popularAlbumsData
    /\ loading' = FALSE

\* Mutant: allData is the object of the call that was started first.
PollPut_intoFirstCall(cs, c, tableName, data) ==
    [cs EXCEPT ![1].allData = put(@, tableName, data),
               ![c].received = Append(@, [name |-> tableName, data |-> data])]

\* allData[table] = data, in the call's own allData.
PollPut(cs, c, tableName, data) ==
    [cs EXCEPT ![c].allData = put(@, tableName, data),
               ![c].received = Append(@, [name |-> tableName, data |-> data])]

\* After the row fetch of tables[idx] is settled in call c, the calls
\* being cs: the next request, or the synchronous block.
PollAdvance(cs, c) ==
    IF cs[c].idx < Len(cs[c].tables)
    THEN /\ cycles' = [cs EXCEPT ![c].idx = @ + 1, ![c].pc = "row_fetch"]
         /\ UNCHANGED <<Shelves, loading, completed>>
    ELSE \E x \in Seeds :
            \E r \in {pollShelves(cs[c].allData, x)} :
                PollEnd(cs, c, "published", r, x)

\* fetch('/api/db/tables') resolves with an OK response.
PollTablesResponseOk ==
    /\ \E c \in 1..Len(cycles) :
          /\ cycles[c].pc = "tables_fetch"
          /\ cycles' = [cycles EXCEPT ![c].pc = "tables_json"]
    /\ UNCHANGED <<mode, Agent, Current, Shelves, loading, Backend, completed>>

\* It resolves with a non-OK response: tables stays [].
PollTablesResponseNotOk ==
    /\ \E c \in 1..Len(cycles) :
          /\ cycles[c].pc = "tables_fetch"
          /\ PollEnd(cycles, c, "no_tables", NoShelves, 0)
    /\ UNCHANGED <<mode, Agent, Current, Backend>>

\* It rejects: the catch.
PollTablesFetchThrows ==
    /\ \E c \in 1..Len(cycles) :
          /\ cycles[c].pc = "tables_fetch"
          /\ PollEnd(cycles, c, "caught", NoShelves, 0)
    /\ UNCHANGED <<mode, Agent, Current, Backend>>

\* tablesResponse.json() resolves: `tables = json.tables || []`.
PollTablesJson ==
    /\ \E c \in 1..Len(cycles) :
          /\ cycles[c].pc = "tables_json"
          /\ \E ts \in PollTableLists :
                IF Len(ts) = 0
                THEN PollEnd(cycles, c, "no_tables", NoShelves, 0)
                ELSE /\ cycles' = [cycles EXCEPT ![c].tables = ts, ![c].idx = 1,
                                                 ![c].pc = "row_fetch"]
                     /\ UNCHANGED <<Shelves, loading, completed>>
    /\ UNCHANGED <<mode, Agent, Current, Backend>>

\* tablesResponse.json() rejects.
PollTablesJsonThrows ==
    /\ \E c \in 1..Len(cycles) :
          /\ cycles[c].pc = "tables_json"
          /\ PollEnd(cycles, c, "caught", NoShelves, 0)
    /\ UNCHANGED <<mode, Agent, Current, Backend>>

\* fetch(`/api/db?table=...`) resolves with an OK response.
PollRowResponseOk ==
    /\ \E c \in 1..Len(cycles) :
          /\ cycles[c].pc = "row_fetch"
          /\ cycles' = [cycles EXCEPT ![c].pc = "row_json"]
    /\ UNCHANGED <<mode, Agent, Current, Shelves, loading, Backend, completed>>

\* It resolves with a non-OK response: allData gets no entry.
PollRowResponseNotOk ==
    /\ \E c \in 1..Len(cycles) :
          /\ cycles[c].pc = "row_fetch"
          /\ PollAdvance(cycles, c)
    /\ UNCHANGED <<mode, Agent, Current, Backend>>

\* It rejects: the inner catch sets allData[table] = [].
PollRowFetchThrows ==
    /\ \E c \in 1..Len(cycles) :
          /\ cycles[c].pc = "row_fetch"
          /\ PollAdvance(PollPut(cycles, c, cycles[c].tables[cycles[c].idx], <<>>), c)
    /\ UNCHANGED <<mode, Agent, Current, Backend>>

\* dataResponse.json() resolves: `allData[table] = data.data || []`.
PollRowJson ==
    /\ \E c \in 1..Len(cycles) :
          /\ cycles[c].pc = "row_json"
          /\ \E data \in PollData :
                PollAdvance(PollPut(cycles, c, cycles[c].tables[cycles[c].idx], data), c)
    /\ UNCHANGED <<mode, Agent, Current, Backend>>

\* dataResponse.json() rejects: the inner catch again.
PollRowJsonThrows ==
    /\ \E c \in 1..Len(cycles) :
          /\ cycles[c].pc = "row_json"
          /\ PollAdvance(PollPut(cycles, c, cycles[c].tables[cycles[c].idx], <<>>), c)
    /\ UNCHANGED <<mode, Agent, Current, Backend>>

NextPoll ==
    \/ PollMount
    \/ PollTick
    \/ PollTablesResponseOk
    \/ PollTablesResponseNotOk
    \/ PollTablesFetchThrows
    \/ PollTablesJson
    \/ PollTablesJsonThrows
    \/ PollRowResponseOk
    \/ PollRowResponseNotOk
    \/ PollRowFetchThrows
    \/ PollRowJson
    \/ PollRowJsonThrows

SpecPoll == InitWith("poll") /\ [][NextPoll]_vars

---------------------------------------------------------------------------
(* The server: each handler runs one psql command and answers.             *)

Ui == <<mode, Elsewhere, pc, Locals, Shelves, loading, error, classified>>

HasTable(name) == \E i \in 1..Len(database) : database[i].name = name

TableOf(name) == database[CHOOSE i \in 1..Len(database) : database[i].name = name]

\* NextResponse.json(body) answers with status 200.
json(body) == [status |-> 200, body |-> body]

\* The catch of the tables endpoint.
tablesCatch == json([tables |-> <<>>])

\* Mutant: the catch answers 500 with an error body.
dataCatch_status500 == [status |-> 500, body |-> [error |-> "Internal server error"]]

\* The catch of the row endpoint.
dataCatch == json([data |-> <<>>])

\* GET /api/db/tables, psql succeeds.
TablesGET ==
    /\ request' = [method |-> "GET", path |-> "/api/db/tables", table |-> "",
                   body |-> NoBody]
    /\ psql' = "ok"
    /\ response' = json(tablesBody(psqlListTables(database)))
    /\ UNCHANGED <<Ui, database, Cli>>

\* GET /api/db/tables, psql fails (the server is down, psql is missing).
TablesGETCatch ==
    /\ request' = [method |-> "GET", path |-> "/api/db/tables", table |-> "",
                   body |-> NoBody]
    /\ psql' = "failed"
    /\ response' = tablesCatch
    /\ UNCHANGED <<Ui, database, Cli>>

\* GET /api/db without a table parameter.
DbGETNoTable ==
    /\ request' = [method |-> "GET", path |-> "/api/db", table |-> "", body |-> NoBody]
    /\ psql' = "none"
    /\ response' = [status |-> 400, body |-> [error |-> "Table parameter is required"]]
    /\ UNCHANGED <<Ui, database, Cli>>

\* GET /api/db?table=T, psql succeeds.
DbGET ==
    \E table \in RequestTables :
        /\ HasTable(table)
        /\ request' = [method |-> "GET", path |-> "/api/db", table |-> table,
                       body |-> NoBody]
        /\ psql' = "ok"
        /\ response' = json(dataBody(psqlSelect(TableOf(table))))
        /\ UNCHANGED <<Ui, database, Cli>>

\* GET /api/db?table=T, psql fails (no such table, or the server is down).
DbGETCatch ==
    \E table \in RequestTables :
        /\ request' = [method |-> "GET", path |-> "/api/db", table |-> table,
                       body |-> NoBody]
        /\ psql' = "failed"
        /\ response' = dataCatch
        /\ UNCHANGED <<Ui, database, Cli>>

\* POST /api/db: `const { userId, songId } = body`; nothing is inserted.
DbPOST ==
    \E body \in PostBodies :
        /\ request' = [method |-> "POST", path |-> "/api/db", table |-> "", body |-> body]
        /\ psql' = "none"
        /\ response' =
              IF ~Truthy(Get(body, "userId")) \/ ~Truthy(Get(body, "songId"))
              THEN [status |-> 400, body |-> [error |-> "userId and songId are required"]]
              ELSE json([message |-> "Recently played song added successfully"])
        /\ UNCHANGED <<Ui, database, Cli>>

\* POST /api/db with a body that is not JSON: request.json() rejects.
DbPOSTCatch ==
    /\ request' = [method |-> "POST", path |-> "/api/db", table |-> "", body |-> NoBody]
    /\ psql' = "none"
    /\ response' = [status |-> 500, body |-> [error |-> "Internal server error"]]
    /\ UNCHANGED <<Ui, database, Cli>>

NextApi ==
    \/ TablesGET
    \/ TablesGETCatch
    \/ DbGETNoTable
    \/ DbGET
    \/ DbGETCatch
    \/ DbPOST
    \/ DbPOSTCatch

SpecApi == InitWith("api") /\ [][NextApi]_vars

---------------------------------------------------------------------------
(* The CLI's resetDatabase, and the page over the same database.           *)

Digits == {"0", "1", "2", "3", "4", "5", "6", "7", "8", "9"}

\* The characters \w matches.
WordChars ==
    DOMAIN LowerOf \cup {LowerOf[c] : c \in DOMAIN LowerOf} \cup Digits \cup {"_"}

\* Whether `part`, the text between two "|" of a line, is \s+(\w+)\s+ .
isPaddedWord(part) ==
    /\ Len(part) >= 3
    /\ SubSeq(part, 1, 1) = " "
    /\ SubSeq(part, Len(part), Len(part)) = " "
    /\ trim(part) # ""
    /\ \A i \in 1..Len(trim(part)) : SubSeq(trim(part), i, i) \in WordChars

\* line.match(/\|\s+(\w+)\s+\|/): the first capture, or "" without match.
matchTable(line) ==
    LET parts == split(line, "|")
        hits == {k \in 2..(Len(parts) - 1) : isPaddedWord(parts[k])}
    IN IF hits = {} THEN ""
       ELSE trim(parts[CHOOSE k \in hits : \A j \in hits : k <= j])

\* The loop of resetDatabase over the lines of the listing.
RECURSIVE droppable(_, _)
droppable(lines, i) ==
    IF i > Len(lines) THEN <<>>
    ELSE LET name == matchTable(lines[i])
         IN (IF name # "" /\ ~includes(name, "_seq") THEN <<name>> ELSE <<>>)
            \o droppable(lines, i + 1)

\* DROP TABLE IF EXISTS <name> CASCADE: the unquoted name is folded to
\* lower case; a missing table is not an error.
dropTable(db, name) == SelectSeq(db, LAMBDA t : t.name # toLowerCase(name))

ResetPrompt ==
    /\ cli = "idle"
    /\ cli' = "confirm"
    /\ UNCHANGED <<Ui, Server, toDrop, loadedAfter, answers>>

\* The first prompt: `if (!confirm) return`.
ResetConfirm ==
    /\ cli = "confirm"
    /\ \E confirm \in BOOLEAN :
          /\ answers' = Append(answers, confirm)
          /\ cli' = IF confirm THEN "confirmFinal" ELSE "cancelled"
    /\ UNCHANGED <<Ui, Server, toDrop, loadedAfter>>

\* Mutant: the second answer is not tested.
ResetConfirmFinal_ignoresAnswer ==
    /\ cli = "confirmFinal"
    /\ \E confirmFinal \in BOOLEAN :
          /\ answers' = Append(answers, confirmFinal)
          /\ cli' = "listing"
    /\ UNCHANGED <<Ui, Server, toDrop, loadedAfter>>

\* The second prompt: `if (!confirmFinal) return`.
ResetConfirmFinal ==
    /\ cli = "confirmFinal"
    /\ \E confirmFinal \in BOOLEAN :
          /\ answers' = Append(answers, confirmFinal)
          /\ cli' = IF confirmFinal THEN "listing" ELSE "cancelled"
    /\ UNCHANGED <<Ui, Server, toDrop, loadedAfter>>

\* psql "\dt" succeeds: the names to drop are collected.
ResetListTables ==
    /\ cli = "listing"
    /\ \E names \in {droppable(split(psqlListTables(database), NL), 1)} :
          /\ toDrop' = names
          /\ cli' = IF names = <<>> THEN "done" ELSE "dropping"
    /\ UNCHANGED <<Ui, Server, loadedAfter, answers>>

\* One DROP TABLE succeeds.
ResetDropTable ==
    /\ cli = "dropping"
    /\ database' = dropTable(database, Head(toDrop))
    /\ toDrop' = Tail(toDrop)
    /\ cli' = IF Tail(toDrop) = <<>> THEN "done" ELSE "dropping"
    /\ UNCHANGED <<Ui, request, psql, response, loadedAfter, answers>>

\* A psql invocation of resetDatabase fails: the catch logs and returns.
ResetFails ==
    /\ cli \in {"listing", "dropping"}
    /\ cli' = "failed"
    /\ UNCHANGED <<Ui, Server, toDrop, loadedAfter, answers>>

\* The page is loaded: the component mounts and the effect calls fetchData.
Mount ==
    /\ pc = "unmounted"
    /\ pc' = "tables_fetch"
    /\ loadedAfter' = cli
    /\ UNCHANGED <<mode, Elsewhere, Locals, Shelves, loading, error, classified, Server, cli, toDrop,
                   answers>>

NextApp ==
    \/ Next
    \/ Mount
    \/ ResetPrompt
    \/ ResetConfirm
    \/ ResetConfirmFinal
    \/ ResetListTables
    \/ ResetDropTable
    \/ ResetFails

SpecApp == InitWith("app") /\ [][NextApp]_vars

\* The titles of the built-in fallback items.
fallbackRecentlyPlayed ==
    <<"Liked Songs", "Discover Weekly", "Release Radar", "Daily Mix 1", "Chill Hits",
      "Top 50 - Global">>

fallbackMadeForYou ==
    <<"Discover Weekly", "Release Radar", "Daily Mix 1", "On Repeat", "Time Capsule",
      "Daily Mix 2">>

fallbackPopularAlbums ==
    <<"Midnights", "Harry's House", "Astroworld", "After Hours", "Scorpion",
      "Happier Than Ever">>

\* The title a card shows for a shelf item.
cardTitle(item) ==
    LET v == firstTruthy(item, <<"title", "song_name", "track_name", "albumname", "name">>,
                         "Unknown Track")
    IN IF v.t = "str" THEN v.s ELSE ToString(v.n)

\* What a section renders: a skeleton while loading, an error text, the
\* cards of the shelf, or the empty state.
renderSection(shelf) ==
    IF loading THEN [kind |-> "skeleton", titles |-> <<>>]
    ELSE IF error # "null" THEN [kind |-> "error", titles |-> <<>>]
    ELSE IF Len(shelf) > 0
    THEN [kind |-> "cards", titles |-> [i \in 1..Len(shelf) |-> cardTitle(shelf[i].rec)]]
    ELSE [kind |-> "empty", titles |-> <<>>]

---------------------------------------------------------------------------
(* The database agent of the CLI (src/cli/src/agent.ts): processQuery asks *)
(* the model for a response, runs the SQL commands of its sql blocks       *)
(* through psql, writes the files of its typescript blocks with            *)
(* updateFile, and verifies.                                               *)

\* s.indexOf(sub) + 1: the first position of sub in s, 0 when absent.
indexOf(s, sub) ==
    IF includes(s, sub)
    THEN CHOOSE i \in 1..(Len(s) - Len(sub) + 1) :
            /\ SubSeq(s, i, i + Len(sub) - 1) = sub
            /\ \A j \in 1..(i - 1) : SubSeq(s, j, j + Len(sub) - 1) # sub
    ELSE 0

\* s.substring(i - 1)
from(s, i) == SubSeq(s, i, Len(s))

startsWith(s, prefix) == Len(s) >= Len(prefix) /\ SubSeq(s, 1, Len(prefix)) = prefix

\* The code fence of a Markdown block, three backquotes in a response; a
\* TLA+ string cannot hold a backquote, so "~~~" stands for it.
Fence == "~~~"

\* The captures of sqlRegex, fence "sql\n" ([\s\S]*?) fence, in order.
RECURSIVE sqlBlocks(_)
sqlBlocks(aiResponse) ==
    LET i == indexOf(aiResponse, Fence \o "sql" \o NL)
        rest == from(aiResponse, i + Len(Fence) + 4)
        j == indexOf(rest, Fence)
    IN IF i = 0 \/ j = 0 THEN <<>>
       ELSE <<SubSeq(rest, 1, j - 1)>> \o sqlBlocks(from(rest, j + Len(Fence)))

\* strs.map(cmd => cmd + ';')
withSemicolon(strs) == [i \in 1..Len(strs) |-> strs[i] \o ";"]

\* The commands of one block: trim, split(';'), trim, drop the empty ones,
\* put the ';' back.
blockCommands(sql) == withSemicolon(nonEmpty(trimAll(split(trim(sql), ";"))))

RECURSIVE flat(_)
flat(lists) == IF lists = <<>> THEN <<>> ELSE Head(lists) \o flat(Tail(lists))

extractSqlCommands(aiResponse) ==
    LET blocks == sqlBlocks(aiResponse)
    IN flat([i \in 1..Len(blocks) |-> blockCommands(blocks[i])])

\* The captures of tsRegex, fence "typescript" \s* "//" \s* "File:" \s*
\* ([^\n]+) "\n" ([\s\S]*?) fence, in order.
RECURSIVE tsBlocks(_)
tsBlocks(aiResponse) ==
    LET i == indexOf(aiResponse, Fence \o "typescript")
        r1 == trimStart(from(aiResponse, i + Len(Fence) + 10))
        r2 == trimStart(from(r1, 3))
        r3 == trimStart(from(r2, 6))
        nl == indexOf(r3, NL)
        body == from(r3, nl + 1)
        j == indexOf(body, Fence)
    IN IF i = 0 THEN <<>>
       ELSE IF /\ startsWith(r1, "//")
               /\ startsWith(r2, "File:")
               /\ nl > 1
               /\ j > 0
       THEN <<[file |-> trim(SubSeq(r3, 1, nl - 1)), code |-> trim(SubSeq(body, 1, j - 1))]>>
            \o tsBlocks(from(body, j + Len(Fence)))
       ELSE tsBlocks(from(aiResponse, i + 1))

extractTypeScriptCode(aiResponse) == tsBlocks(aiResponse)

\* validateSqlCommands: every command is pushed to `valid`.
validateSqlCommands(sqlCommands, existingTables) ==
    [valid |-> sqlCommands, invalid |-> <<>>]

\* Whether the parts occur in `line` in this order: part1.*part2.*...
RECURSIVE inOrder(_, _)
inOrder(line, parts) ==
    IF parts = <<>> THEN TRUE
    ELSE LET i == indexOf(line, Head(parts))
         IN i > 0 /\ inOrder(from(line, i + Len(Head(parts))), Tail(parts))

errorPatterns ==
    <<<<"import", "query", "from", "lib/db">>,
      <<"export", "default", "async", "function", "handler">>,
      <<"NextApiRequest", "NextApiResponse">>>>

\* pattern.test(content) for some pattern: `.` does not cross a line end.
matchesErrorPattern(content) ==
    LET lines == split(content, NL)
    IN \E p \in 1..Len(errorPatterns) :
          \E l \in 1..Len(lines) : inOrder(lines[l], errorPatterns[p])

\* psql as the agent's commands see it.  The name a command is about: the
\* third word of CREATE TABLE / INSERT INTO / DROP TABLE, the word after
\* FROM of a SELECT.
sqlWords(command) == split(trim(SubSeq(command, 1, Len(command) - 1)), " ")

sqlTable(command) ==
    LET words == sqlWords(command)
    IN IF Head(words) = "SELECT"
       THEN words[(CHOOSE i \in 1..Len(words) : words[i] = "FROM") + 1]
       ELSE words[3]

\* The text of the first quoted literal of a command.
sqlLiteral(command) ==
    LET rest == from(command, indexOf(command, "'") + 1)
    IN SubSeq(rest, 1, indexOf(rest, "'") - 1)

KnownTables == <<"albums", "recently_played", "songs">>

\* The database with table t added, in name order.
withTable(db, t) ==
    flat([i \in 1..Len(KnownTables) |->
            IF KnownTables[i] = t.name THEN <<t>>
            ELSE SelectSeq(db, LAMBDA u : u.name = KnownTables[i])])

\* How psql ends for `command` on db, and the database afterwards: CREATE
\* TABLE fails on an existing table, the others on a missing one.
runSql(db, command) ==
    LET verb == Head(sqlWords(command))
        name == sqlTable(command)
        exists == \E i \in 1..Len(db) : db[i].name = name
    IN CASE verb = "CREATE" ->
               IF exists THEN [ok |-> FALSE, db |-> db]
               ELSE [ok |-> TRUE,
                     db |-> withTable(db, [name |-> name, cols |-> <<"id", "title">>,
                                           rows |-> <<>>])]
         [] verb = "INSERT" ->
               [ok |-> exists,
                db |-> [i \in 1..Len(db) |->
                          IF db[i].name = name
                          THEN [db[i] EXCEPT !.rows =
                                   Append(@, <<ToString(Len(@) + 1), sqlLiteral(command)>>)]
                          ELSE db[i]]]
         [] verb = "DROP" ->
               [ok |-> exists, db |-> SelectSeq(db, LAMBDA u : u.name # name)]
         [] OTHER -> [ok |-> exists, db |-> db]

\* The responses of the model: prose, then possibly a sql block (two
\* commands that succeed on a database without `songs`, or three of which
\* the second fails), then possibly a typescript block for one file.
SqlParts ==
    {"",
     Fence \o "sql" \o NL
        \o "CREATE TABLE songs (id serial, title text);" \o NL
        \o "INSERT INTO songs (title) VALUES ('Blue');" \o NL \o Fence \o NL,
     Fence \o "sql" \o NL
        \o "CREATE TABLE songs (id serial, title text); "
        \o "INSERT INTO albums (title) VALUES ('Blue');" \o NL
        \o "DROP TABLE songs;" \o NL \o Fence \o NL}

TsParts ==
    {"",
     Fence \o "typescript" \o NL \o "// File: " \o TargetFile \o NL
        \o "export async function GET() {}" \o NL \o Fence \o NL,
     Fence \o "typescript" \o NL \o "// File: " \o TargetFile \o NL
        \o "import { query } from '@/lib/db'" \o NL
        \o "export async function GET() {}" \o NL \o Fence \o NL}

Responses == {"Done." \o NL \o sql \o ts : sql \in SqlParts, ts \in TsParts}

\* writeFile(path, content) / copyFile(src, dst)
written(fs, path, content) ==
    [p \in DOMAIN fs \cup {path} |-> IF p = path THEN content ELSE fs[p]]

Outside ==
    <<mode, Poller, pc, Locals, Shelves, loading, error, classified,
      request, psql, response, Cli>>

\* processQuery(query, openai) is called.
ProcessQuery ==
    /\ mode = "agent"
    /\ agent.pc = "idle"
    /\ agent' = [agent EXCEPT !.pc = "context", !.db0 = database, !.files0 = files]
    /\ UNCHANGED <<Outside, database, files, sqlLog>>

\* The outer catch of processQuery: log and rethrow.
Thrown(a, cause) == [a EXCEPT !.pc = "threw", !.failed = cause]

\* Step 1 ends (analyzeContext answers the listed tables, or none from its
\* catch); step 2 tests OPENAI_API_KEY and calls the API.
AnalyzeContext ==
    /\ agent.pc = "context"
    /\ \E existingTables \in {<<>>, droppable(split(psqlListTables(database), NL), 1)} :
          \E keySet \in BOOLEAN :
              agent' = IF keySet
                       THEN [agent EXCEPT !.pc = "openai",
                                          !.existingTables = existingTables]
                       ELSE Thrown([agent EXCEPT !.existingTables = existingTables],
                                   "api_key")
    /\ UNCHANGED <<Outside, database, files, sqlLog>>

\* Step 4 begins, or step 5 when the response names no file.
toFiles(a) ==
    LET tsFiles == extractTypeScriptCode(a.aiResponse)
    IN IF Len(tsFiles) > 0
       THEN [a EXCEPT !.tsFiles = tsFiles, !.f = 1, !.pc = "ts_access",
                      !.before = files]
       ELSE [a EXCEPT !.pc = "verify"]

\* The completion resolves: step 3 begins.  validateSqlCommands keeps
\* every command, so `valid.length === 0` is false here.
OpenAiResolves ==
    /\ agent.pc = "openai"
    /\ \E aiResponse \in Responses :
          \E sqlCommands \in {extractSqlCommands(aiResponse)} :
              \E a \in {[agent EXCEPT !.aiResponse = aiResponse,
                                      !.sqlCommands = sqlCommands]} :
                  agent' = IF Len(sqlCommands) > 0
                           THEN IF Len(validateSqlCommands(sqlCommands,
                                                           a.existingTables).valid) = 0
                                THEN [a EXCEPT !.pc = "done"]
                                ELSE [a EXCEPT !.pc = "sql", !.k = 1]
                           ELSE toFiles(a)
    /\ UNCHANGED <<Outside, database, files, sqlLog>>

\* The completion rejects.
OpenAiRejects ==
    /\ agent.pc = "openai"
    /\ agent' = Thrown(agent, "openai")
    /\ UNCHANGED <<Outside, database, files, sqlLog>>

\* Mutant: a failed command is logged and the loop goes on.
afterSql_continues(a, ok) ==
    IF a.k < Len(a.sqlCommands) THEN [a EXCEPT !.k = @ + 1] ELSE toFiles(a)

\* After executeSql(valid[k]) is settled: the next command, step 4, or the
\* rethrown error.
afterSql(a, ok) ==
    IF ~ok THEN Thrown(a, "sql")
    ELSE IF a.k < Len(a.sqlCommands) THEN [a EXCEPT !.k = @ + 1]
    ELSE toFiles(a)

\* executeSql(valid[k]): the connection test passes and psql runs the
\* command.
ExecuteSql ==
    /\ agent.pc = "sql"
    /\ \E r \in {runSql(database, agent.sqlCommands[agent.k])} :
          /\ database' = r.db
          /\ sqlLog' = Append(sqlLog, agent.sqlCommands[agent.k])
          /\ agent' = afterSql(agent, r.ok)
    /\ UNCHANGED <<Outside, files>>

\* executeSql(valid[k]): `SELECT 1` fails, the command is not run.
ExecuteSqlNoConnection ==
    /\ agent.pc = "sql"
    /\ agent' = Thrown(agent, "sql")
    /\ UNCHANGED <<Outside, database, files, sqlLog>>

\* updateFile(file, code) of the file at hand, and its backup path.
tsFile == agent.tsFiles[agent.f]
backupOf(path) == path \o ".backup"

\* updateFile is settled: it returned backupPath ("returned"), threw
\* `File validation failed` ("validation_failed") or rethrew the error of
\* a file operation ("threw").
settled(a, outcome) ==
    [a EXCEPT !.outcomes = Append(@, outcome), !.pc = "ts_returned"]

\* `await access(fullPath)`: resolves for an existing file; for a missing
\* one the catch logs "Creating new file".
UpdateAccess ==
    /\ agent.pc = "ts_access"
    /\ agent' = IF tsFile.file \in DOMAIN files
                THEN [agent EXCEPT !.pc = "ts_backup"]
                ELSE [agent EXCEPT !.pc = "ts_write"]
    /\ UNCHANGED <<Outside, database, files, sqlLog>>

\* backupFile: copyFile(fullPath, backupPath) succeeds.
UpdateBackup ==
    /\ agent.pc = "ts_backup"
    /\ files' = written(files, backupOf(tsFile.file), files[tsFile.file])
    /\ agent' = [agent EXCEPT !.backupPath = backupOf(tsFile.file), !.pc = "ts_write"]
    /\ UNCHANGED <<Outside, database, sqlLog>>

\* backupFile throws: the catch around access and backupFile takes it for
\* a missing file and backupPath stays null.
UpdateBackupFails ==
    /\ agent.pc = "ts_backup"
    /\ agent' = [agent EXCEPT !.pc = "ts_write"]
    /\ UNCHANGED <<Outside, database, files, sqlLog>>

\* writeFile(fullPath, content) succeeds; validation follows only when
\* backupPath is set.
UpdateWrite ==
    /\ agent.pc = "ts_write"
    /\ files' = written(files, tsFile.file, tsFile.code)
    /\ agent' = IF agent.backupPath # ""
                THEN [agent EXCEPT !.pc = "ts_validate"]
                ELSE settled(agent, "returned")
    /\ UNCHANGED <<Outside, database, sqlLog>>

\* writeFile rejects: updateFile rethrows.
UpdateWriteFails ==
    /\ agent.pc = "ts_write"
    /\ agent' = settled(agent, "threw")
    /\ UNCHANGED <<Outside, database, files, sqlLog>>

\* Mutant: an invalid file is reported and left as written.
UpdateValidate_withoutRestore ==
    /\ agent.pc = "ts_validate"
    /\ agent' = IF matchesErrorPattern(files[tsFile.file])
                THEN settled(agent, "validation_failed")
                ELSE settled(agent, "returned")
    /\ UNCHANGED <<Outside, database, files, sqlLog>>

\* testFileValidity reads the file back and tests the patterns.
UpdateValidate ==
    /\ agent.pc = "ts_validate"
    /\ agent' = IF matchesErrorPattern(files[tsFile.file])
                THEN [agent EXCEPT !.pc = "ts_restore"]
                ELSE settled(agent, "returned")
    /\ UNCHANGED <<Outside, database, files, sqlLog>>

\* readFile rejects: testFileValidity answers false.
UpdateValidateReadFails ==
    /\ agent.pc = "ts_validate"
    /\ agent' = [agent EXCEPT !.pc = "ts_restore"]
    /\ UNCHANGED <<Outside, database, files, sqlLog>>

\* restoreFile: copyFile(backupPath, fullPath) succeeds; updateFile throws
\* "File validation failed".
UpdateRestore ==
    /\ agent.pc = "ts_restore"
    /\ files' = written(files, tsFile.file, files[agent.backupPath])
    /\ agent' = settled(agent, "validation_failed")
    /\ UNCHANGED <<Outside, database, sqlLog>>

\* restoreFile throws: updateFile rethrows.
UpdateRestoreFails ==
    /\ agent.pc = "ts_restore"
    /\ agent' = settled(agent, "threw")
    /\ UNCHANGED <<Outside, database, files, sqlLog>>

\* The cleanup loop from entry i on: the next entry with a backup, or
\* step 5.
toCleanup(a, i) ==
    LET withBackup == {j \in i..Len(a.backups) : a.backups[j].backup # ""}
    IN IF withBackup = {} THEN [a EXCEPT !.pc = "verify"]
       ELSE [a EXCEPT !.pc = "cleanup",
                      !.c = CHOOSE j \in withBackup : \A h \in withBackup : j <= h]

\* processQuery resumes after updateFile: a returned backupPath is pushed
\* to `backups`, a thrown error is logged; then the next file, or the
\* cleanup loop.
UpdateReturned ==
    /\ agent.pc = "ts_returned"
    /\ \E a \in {IF agent.outcomes[Len(agent.outcomes)] = "returned"
                 THEN [agent EXCEPT !.backups =
                          Append(@, [file |-> tsFile.file, backup |-> agent.backupPath])]
                 ELSE agent} :
          agent' = IF a.f < Len(a.tsFiles)
                   THEN [a EXCEPT !.f = @ + 1, !.pc = "ts_access", !.backupPath = "",
                                  !.before = files]
                   ELSE toCleanup(a, 1)
    /\ UNCHANGED <<Outside, database, files, sqlLog>>

\* cleanupBackup: the backup file is emptied.
CleanupBackup ==
    /\ agent.pc = "cleanup"
    /\ files' = written(files, agent.backups[agent.c].backup, "")
    /\ agent' = toCleanup(agent, agent.c + 1)
    /\ UNCHANGED <<Outside, database, sqlLog>>

\* cleanupBackup: access or writeFile rejects, which is ignored.
CleanupBackupFails ==
    /\ agent.pc = "cleanup"
    /\ agent' = toCleanup(agent, agent.c + 1)
    /\ UNCHANGED <<Outside, database, files, sqlLog>>

VerifyCommand == "SELECT COUNT(*) as count FROM recently_played;"

\* Step 5: executeSql(VerifyCommand), psql runs it.
Verify ==
    /\ agent.pc = "verify"
    /\ sqlLog' = Append(sqlLog, VerifyCommand)
    /\ agent' = IF runSql(database, VerifyCommand).ok
                THEN [agent EXCEPT !.pc = "done"]
                ELSE Thrown(agent, "verify")
    /\ UNCHANGED <<Outside, database, files>>

\* Step 5: `SELECT 1` fails.
VerifyNoConnection ==
    /\ agent.pc = "verify"
    /\ agent' = Thrown(agent, "verify_connection")
    /\ UNCHANGED <<Outside, database, files, sqlLog>>

NextAgent ==
    \/ ProcessQuery
    \/ AnalyzeContext
    \/ OpenAiResolves
    \/ OpenAiRejects
    \/ ExecuteSql
    \/ ExecuteSqlNoConnection
    \/ UpdateAccess
    \/ UpdateBackup
    \/ UpdateBackupFails
    \/ UpdateWrite
    \/ UpdateWriteFails
    \/ UpdateValidate
    \/ UpdateValidateReadFails
    \/ UpdateRestore
    \/ UpdateRestoreFails
    \/ UpdateReturned
    \/ CleanupBackup
    \/ CleanupBackupFails
    \/ Verify
    \/ VerifyNoConnection

SpecAgent == InitWith("agent") /\ [][NextAgent]_vars

---------------------------------------------------------------------------
(* Properties of the fetch cycle.                                          *)

\* Everything on the three shelves, in shelf order.
AllShelved == recentlyPlayed \o madeForYou \o popularAlbums

Places(records) == {records[i].src : i \in 1..Len(records)}

\* The fetched row a record was made from.
RowOf(e) ==
    LET entry == CHOOSE a \in {allData[i] : i \in 1..Len(allData)} : a.name = e.src[1]
    IN entry.data[e.src[2]]

\* The detector as the specification words it.
SpecDetectorKeywords ==
    {"name", "title", "artist", "song", "album", "track", "playlist", "music",
     "id", "image", "cover", "duration", "time"}

PassesDetector(entry) ==
    /\ Len(entry.data) > 0
    /\ \E col \in DOMAIN entry.data[1] :
          \E k \in SpecDetectorKeywords : includes(toLowerCase(col), k)

FetchedEntries == {allData[i] : i \in 1..Len(allData)}

\* The place of every row of every table that passed the detector.
DetectedPlaces ==
    UNION {{<<a.name, i>> : i \in 1..Len(a.data)} :
           a \in {b \in FetchedEntries : PassesDetector(b)}}

\* C1: after a cycle that completes without exception, the three shelves
\* hold exactly the rows of the tables that passed the detector, each row
\* once: none lost, none duplicated, redistribution included.
C1_RowsConserved ==
    pc = "published" =>
        /\ Len(AllShelved) = Cardinality(DetectedPlaces)
        /\ Places(AllShelved) = DetectedPlaces

\* A cycle in which the pool outgrew the capped top-up of Popular Albums,
\* so that the rest was split in thirds.
C1_Witness ==
    /\ pc = "published"
    /\ Len(classified.recentlyPlayedData) > 0
    /\ Len(classified.madeForYouData) > 0
    /\ Len(classified.popularAlbumsData) = 0
    /\ Len(classified.unassignedData) > 6
    /\ Len(popularAlbums) = 6
    /\ Len(recentlyPlayed) > Len(classified.recentlyPlayedData)

\* The prefer-real filter as the specification words it.
PassesPreferReal(v) ==
    /\ v.t = "str"
    /\ trim(v.s) # ""
    /\ Len(v.s) > 1
    /\ ~includes(toLowerCase(v.s), "id")
    /\ ~includes(toLowerCase(v.s), "unknown")
    /\ ~includes(toLowerCase(v.s), "test")

NamesPopular(name) == includes(toLowerCase(name), "popular")

OnPopularAlbums(a) ==
    \A i \in 1..Len(a.data) : <<a.name, i>> \in Places(popularAlbums)

\* C2 as claimed: every detected table whose name contains "popular" has all
\* its rows on the Popular Albums shelf, whatever else the name contains.
C2_PopularAlwaysPopularAlbums ==
    pc = "published" =>
        \A a \in FetchedEntries :
            (PassesDetector(a) /\ NamesPopular(a.name)) => OnPopularAlbums(a)

SpecRecentlyPlayedKeywords ==
    {"recent", "played", "listened", "history", "activity", "song", "track"}

SpecMadeForYouKeywords ==
    {"made", "for", "you", "personal", "recommend", "playlist", "mix", "weekly",
     "daily", "curated", "personalized"}

\* C2 amended: every detected table whose name contains "popular" and none
\* of the Recently Played or Made For You keywords has all its rows on the
\* Popular Albums shelf.
C2_PopularUnlessEarlierMatch ==
    pc = "published" =>
        \A a \in FetchedEntries :
            (/\ PassesDetector(a)
             /\ NamesPopular(a.name)
             /\ \A k \in SpecRecentlyPlayedKeywords \cup SpecMadeForYouKeywords :
                    ~includes(toLowerCase(a.name), k))
            => OnPopularAlbums(a)

\* A table matched by "popular" alone, in mixed case, with song-like rows,
\* is on the Popular Albums shelf.
C2_Witness ==
    /\ pc = "published"
    /\ \E a \in FetchedEntries :
          /\ a.name = "Popular_Picks"
          /\ Len(a.data) = 2
          /\ a.data[1] = songRow(1)
          /\ OnPopularAlbums(a)

SpecTitleFields == {"title", "song_name", "track_name", "name", "album", "album_name"}

LacksTitleFields(row) == DOMAIN row \cap SpecTitleFields = {}

C4_RealTitleKept ==
    \A i \in 1..Len(AllShelved) :
        LET row == RowOf(AllShelved[i])
        IN ("title" \in DOMAIN row /\ PassesPreferReal(row["title"]))
           => AllShelved[i].rec["title"] = row["title"]

\* A shelved row of the description+type arm that kept its real title.
C4_Witness ==
    \E i \in 1..Len(AllShelved) :
        /\ DOMAIN RowOf(AllShelved[i]) = {"title", "description", "type"}
        /\ RowOf(AllShelved[i])["title"] = Str("My title")
        /\ AllShelved[i].rec["title"] = Str("My title")

SpecPlaceholders ==
    [title |-> {"Unknown Playlist", "Unknown Album", "Unknown Track", "Unknown Title"},
     artist |-> {"Playlist Description", "Unknown Artist"},
     album |-> {"Playlist Type", "Album", "Unknown Album"}]

\* C5 as claimed: on every record, title, artist and album are each a fixed
\* placeholder or a string that passes the prefer-real filter; a raw value
\* that fails the filter is never shown.
C5_OnlyRealOrPlaceholder ==
    \A i \in 1..Len(AllShelved) :
        \A f \in {"title", "artist", "album"} :
            LET v == AllShelved[i].rec[f]
            IN \/ (v.t = "str" /\ v.s \in SpecPlaceholders[f])
               \/ PassesPreferReal(v)

IsNonEmpty(v) ==
    CASE v.t = "str" -> v.s # ""
      [] v.t = "num" -> TRUE
      [] OTHER -> FALSE

\* C6 as claimed: every shelved record has a non-empty id, title, artist,
\* album, image and duration, also when the row holds "" in those columns.
C6_EveryFieldNonEmpty ==
    \A i \in 1..Len(AllShelved) :
        \A f \in {"id", "title", "artist", "album", "image", "duration"} :
            IsNonEmpty(AllShelved[i].rec[f])

\* C7 as claimed: no two records of one cycle's shelves have the same id.
C7_IdsUnique ==
    pc = "published" =>
        \A i, j \in 1..Len(AllShelved) :
            i # j => AllShelved[i].rec["id"] # AllShelved[j].rec["id"]

ProbeSeeds == {0, 13, 50}

\* C8: normalizing a shelved record's row again, with the generator in any
\* state, yields the same title, artist, album and image; id and duration
\* are the same too whenever the row has that column.
C8_NormalizeDeterministic ==
    \A i \in 1..Len(AllShelved) :
        \A x \in ProbeSeeds :
            LET row == RowOf(AllShelved[i])
                again == mappedItem(row, x).rec
                first == AllShelved[i].rec
            IN /\ \A f \in {"title", "artist", "album", "image"} : again[f] = first[f]
               /\ "id" \in DOMAIN row => again["id"] = first["id"]
               /\ "duration" \in DOMAIN row => again["duration"] = first["duration"]

\* A shelved record of a row without id, duration and title, whose random
\* id does differ on a second normalization.
C8_Witness ==
    \E i \in 1..Len(AllShelved) :
        /\ DOMAIN RowOf(AllShelved[i]) = {"artist"}
        /\ \E x \in ProbeSeeds :
              mappedItem(RowOf(AllShelved[i]), x).rec["id"] # AllShelved[i].rec["id"]

ClassifiedPlaces ==
    Places(classified.recentlyPlayedData) \cup Places(classified.madeForYouData)
    \cup Places(classified.popularAlbumsData) \cup Places(classified.unassignedData)

PlacesOf(a) == {<<a.name, i>> : i \in 1..Len(a.data)}

\* C9: a table's rows enter the accumulators exactly when a column name of
\* its first row contains a detector keyword (case-insensitively); a table
\* that fails the detector or has no row adds nothing to a shelf or the pool.
C9_DetectorDecides ==
    pc = "published" =>
        \A a \in FetchedEntries :
            IF PassesDetector(a)
            THEN PlacesOf(a) \subseteq ClassifiedPlaces
            ELSE /\ \A q \in ClassifiedPlaces \cup Places(AllShelved) : q[1] # a.name
                 /\ PlacesOf(a) \cap ClassifiedPlaces = {}

\* A table rejected on its first row although its second row has music
\* columns.
C9_Witness ==
    /\ pc = "published"
    /\ \E a \in FetchedEntries : a.data = <<[foo |-> Str("bar")], songRow(1)>>
    /\ AllShelved = <<>>

\* C10: when discovery yields no table (empty list, non-OK response, thrown
\* fetch) the cycle ends at once with three empty shelves, loading false and
\* error null, and no row fetch is ever issued.
C10_NoTablesEndsEmpty ==
    tables = <<>> =>
        /\ requests = <<>>
        /\ error = "null"
        /\ pc \in {"tables_fetch", "tables_json", "no_tables", "caught"}
        /\ pc \in {"no_tables", "caught"} =>
              /\ recentlyPlayed = <<>>
              /\ madeForYou = <<>>
              /\ popularAlbums = <<>>
              /\ loading = FALSE

\* The cycle ended in the catch because the discovery request was rejected.
C10_Witness ==
    /\ pc = "caught"
    /\ tables = <<>>
    /\ loading = FALSE

\* C11 as claimed: whatever mix of strings, numbers and nulls a row holds,
\* the cycle never reaches the outer catch once row requests were issued
\* (the only way there is an exception in normalization or analysis).
C11_ShapeNeverFatal ==
    pc = "caught" => requests = <<>>

\* The requested tables whose row fetch gave no rows: no entry in allData
\* (response not OK) or an entry without rows (request rejected, or empty).
WithoutRows ==
    {requests[i] : i \in 1..Len(requests)}
    \ {a.name : a \in {b \in FetchedEntries : Len(b.data) > 0}}

\* The entries of the tables that did give rows, in order.
EntriesWithRows == SelectSeq(allData, LAMBDA a : Len(a.data) > 0)

\* C12: a table whose row fetch failed puts nothing on a shelf, the shelves
\* are exactly what a cycle over the other tables alone produces, and the
\* error state stays null.
C12_FailedTableIsEmpty ==
    pc = "published" =>
        /\ error = "null"
        /\ \A q \in Places(AllShelved) : q[1] \notin WithoutRows
        /\ \E x \in Seeds :
              Shelves =
                 LET r == distributeUnassigned(
                              classifyTables(EntriesWithRows, 1, emptyAcc(x)))
                 IN <<r.recentlyPlayedData, r.madeForYouData, r.popularAlbumsData>>

\* Of three requested tables one answered not OK (no entry), one was
\* rejected or empty, and the third one's rows are on the shelves.
C12_Witness ==
    /\ pc = "published"
    /\ Len(requests) = 3
    /\ Len(allData) = 2
    /\ Cardinality(WithoutRows) = 2
    /\ AllShelved # <<>>

\* The three shelves one whole cycle over `entries` computes.
CycleResult(entries, x) ==
    LET r == distributeUnassigned(classifyTables(entries, 1, emptyAcc(x)))
    IN <<r.recentlyPlayedData, r.madeForYouData, r.popularAlbumsData>>

\* C13: between asynchronous steps the three shelves are all as before the
\* cycle (empty), all empty after a failure, or all three the result one
\* cycle computed from everything it fetched; never a mixture.
C13_ShelvesNeverPartial ==
    IF pc = "published"
    THEN \E x \in Seeds : Shelves = CycleResult(allData, x)
    ELSE Shelves = <<<<>>, <<>>, <<>>>>

\* A published result with rows on all three shelves, none of them from
\* the pool.
C13_Witness ==
    /\ pc = "published"
    /\ recentlyPlayed # <<>>
    /\ madeForYou # <<>>
    /\ popularAlbums # <<>>
    /\ classified.unassignedData = <<>>

\* C14: whenever the psql invocation of a read endpoint failed, the answer
\* has status 200 and an empty list: {tables: []} from the tables endpoint,
\* {data: []} from the row endpoint.
C14_ReadEndpointsBestEffort ==
    (request.method = "GET" /\ psql = "failed") =>
        /\ response.status = 200
        /\ response.body = IF request.path = "/api/db/tables"
                           THEN [tables |-> <<>>]
                           ELSE [data |-> <<>>]

\* The row endpoint was asked for a table that exists and has rows, psql
\* failed, and the answer is the empty list.
C14_Witness ==
    /\ request.path = "/api/db"
    /\ psql = "failed"
    /\ HasTable(request.table)
    /\ Len(TableOf(request.table).rows) > 0
    /\ response = [status |-> 200, body |-> [data |-> <<>>]]

\* C15 as claimed: a POST whose body is {table, data} for an existing table
\* is answered with success and `data` is then a row of that table.
C15_PostInsertsRow ==
    (/\ request.method = "POST"
     /\ {"table", "data"} \subseteq DOMAIN request.body
     /\ HasTable(request.body["table"].s))
    => /\ response.status = 200
       /\ \E i \in 1..Len(TableOf(request.body["table"].s).rows) :
             TableOf(request.body["table"].s).rows[i][2] = request.body["data"]["title"].s

\* C16 as claimed: when the page is loaded after resetDatabase has dropped
\* every table, then once the fetch cycle has ended the three sections show
\* the built-in fallback items.
C16_ResetShowsStaticContent ==
    (/\ loadedAfter = "done"
     /\ database = <<>>
     /\ pc \in {"no_tables", "published", "caught"})
    => /\ renderSection(recentlyPlayed).titles = fallbackRecentlyPlayed
       /\ renderSection(madeForYou).titles = fallbackMadeForYou
       /\ renderSection(popularAlbums).titles = fallbackPopularAlbums

SpecPopularAlbumsKeywords ==
    {"popular", "album", "trending", "chart", "hit", "top", "new", "release"}

MatchesAny(name, keywords) == \E k \in keywords : includes(toLowerCase(name), k)

\* The shelf of the first keyword set, in the order Recently Played, Made
\* For You, Popular Albums, that the table name matches.
FirstMatch(name) ==
    IF MatchesAny(name, SpecRecentlyPlayedKeywords) THEN "recently_played"
    ELSE IF MatchesAny(name, SpecMadeForYouKeywords) THEN "made_for_you"
    ELSE IF MatchesAny(name, SpecPopularAlbumsKeywords) THEN "popular_albums"
    ELSE "none"

ShelfNamed(section) ==
    CASE section = "recently_played" -> recentlyPlayed
      [] section = "made_for_you" -> madeForYou
      [] OTHER -> popularAlbums

\* C17: a detected table whose name matches a keyword has all its rows on
\* the shelf of the first matching set (Recently Played, then Made For You,
\* then Popular Albums) and none in the unassigned pool, whatever its rows
\* look like.
C17_FirstNameMatchWins ==
    pc = "published" =>
        \A a \in FetchedEntries :
            (PassesDetector(a) /\ FirstMatch(a.name) # "none") =>
                /\ PlacesOf(a) \subseteq Places(ShelfNamed(FirstMatch(a.name)))
                /\ PlacesOf(a) \cap Places(classified.unassignedData) = {}
                /\ Len(AllShelved) = Len(a.data)

\* popular_songs matches Recently Played ("song") and Popular Albums
\* ("popular"); its playlist-phrased rows are on Recently Played.
C17_Witness ==
    /\ pc = "published"
    /\ \E a \in FetchedEntries :
          /\ a.name = "popular_songs"
          /\ Len(a.data) = 2
          /\ \A i \in 1..2 : Get(a.data[i], "title") = Str("Deep Focus")
          /\ PlacesOf(a) = Places(recentlyPlayed)

\* The playlist phrasing of the specification.
SpecPlaylistPhrases ==
    {"mix", "playlist", "weekly", "discover", "radar", "on repeat", "time capsule",
     "chill", "peaceful", "deep focus", "instrumental"}

\* The normalized records of a fetched table, wherever they were put.
RecordsOf(a) ==
    LET all == classified.recentlyPlayedData \o classified.madeForYouData
               \o classified.popularAlbumsData \o classified.unassignedData
    IN [i \in 1..Len(a.data) |->
           all[CHOOSE k \in 1..Len(all) : all[k].src = <<a.name, i>>].rec]

PlaylistPhrased(rec) ==
    rec["title"].t = "str" /\ includesAny(toLowerCase(rec["title"].s), SpecPlaylistPhrases)

AlbumLike(rec) ==
    /\ ~PlaylistPhrased(rec)
    /\ rec["album"].t = "str"
    /\ rec["album"].s \notin {"", "Unknown Album"}

SongLike(rec) ==
    /\ ~PlaylistPhrased(rec)
    /\ rec["title"].t = "str" /\ rec["title"].s # ""
    /\ rec["artist"].t = "str" /\ rec["artist"].s # ""

CountOf(recs, kind) ==
    Cardinality({i \in 1..Len(recs) :
                    CASE kind = "playlist" -> PlaylistPhrased(recs[i])
                      [] kind = "album" -> AlbumLike(recs[i])
                      [] OTHER -> SongLike(recs[i])})

\* The shelf the highest count selects, ties going to Made For You, then
\* Popular Albums, then Recently Played.
HighestCount(recs) ==
    LET p == CountOf(recs, "playlist")
        a == CountOf(recs, "album")
        g == CountOf(recs, "song")
    IN IF p >= a /\ p >= g THEN "made_for_you"
       ELSE IF a >= g THEN "popular_albums"
       ELSE "recently_played"

\* C18 as claimed: a detected table without name keyword match is on the
\* shelf with the highest count among playlist-phrased, album-like and
\* song-like rows (ties: Made For You, Popular Albums, Recently Played).
C18_HighestCountWins ==
    pc = "published" =>
        \A a \in FetchedEntries :
            (PassesDetector(a) /\ FirstMatch(a.name) = "none") =>
                PlacesOf(a) \subseteq Places(ShelfNamed(HighestCount(RecordsOf(a))))

\* C19 as claimed: a detected table without name keyword match in which the
\* playlist-phrased rows outnumber both the album-like and the song-like
\* rows is on Made For You.
C19_PlaylistMajorityIsMadeForYou ==
    pc = "published" =>
        \A a \in FetchedEntries :
            (/\ PassesDetector(a)
             /\ FirstMatch(a.name) = "none"
             /\ CountOf(RecordsOf(a), "playlist") > CountOf(RecordsOf(a), "album")
             /\ CountOf(RecordsOf(a), "playlist") > CountOf(RecordsOf(a), "song"))
            => PlacesOf(a) \subseteq Places(madeForYou)

\* The shelves that classification left without any row.
EmptyAfterClassification ==
    {k \in {"recently_played", "made_for_you", "popular_albums"} :
        CASE k = "recently_played" -> classified.recentlyPlayedData = <<>>
          [] k = "made_for_you" -> classified.madeForYouData = <<>>
          [] OTHER -> classified.popularAlbumsData = <<>>}

\* C20: when the pool holds at least as many rows as there are shelves
\* without rows after classification, each of those shelves has a row after
\* redistribution.
C20_TopUpFillsEmptyShelves ==
    pc = "published" =>
        (Len(classified.unassignedData) >= Cardinality(EmptyAfterClassification)
         => \A k \in EmptyAfterClassification : ShelfNamed(k) # <<>>)

\* All three shelves were empty, the pool held exactly three rows, and
\* each shelf got one.
C20_Witness ==
    /\ pc = "published"
    /\ Cardinality(EmptyAfterClassification) = 3
    /\ Len(classified.unassignedData) = 3
    /\ Len(recentlyPlayed) = 1
    /\ Len(madeForYou) = 1
    /\ Len(popularAlbums) = 1

\* A normalized record with a non-empty title and a non-empty artist.
WellFormed(rec) ==
    /\ rec["title"].t = "str" /\ rec["title"].s # ""
    /\ rec["artist"].t = "str" /\ rec["artist"].s # ""

\* C23: a detected table without name keyword match whose normalized
\* records all have a non-empty title and a non-empty artist is assigned to
\* a shelf by content scoring: none of its rows is in the unassigned pool.
C23_WellFormedNeverPooled ==
    pc = "published" =>
        \A a \in FetchedEntries :
            (/\ PassesDetector(a)
             /\ FirstMatch(a.name) = "none"
             /\ \A i \in 1..Len(a.data) : WellFormed(RecordsOf(a)[i]))
            => PlacesOf(a) \cap Places(classified.unassignedData) = {}

\* A table of two rows without artist column: the records carry the artist
\* placeholder, only songCount is positive, and the table is on Recently
\* Played.
C23_Witness ==
    /\ pc = "published"
    /\ \E a \in FetchedEntries :
          /\ FirstMatch(a.name) = "none"
          /\ a.data = <<[title |-> Str("Anti-Hero")], [title |-> Str("Anti-Hero")]>>
          /\ \A i \in 1..2 : WellFormed(RecordsOf(a)[i])
          /\ PlacesOf(a) = Places(classified.recentlyPlayedData)
          /\ classified.unassignedData = <<>>

\* The three ways a fetch cycle ends.
Ended == {"no_tables", "published", "caught"}

\* C24: loading starts true, is false exactly when the one cycle of the
\* mount has ended (zero tables, published, caught), never turns true
\* again, no second cycle starts, and loading = false is eventually reached
\* when every pending promise is eventually settled.
C24_LoadingEndsOnce ==
    /\ loading = TRUE
    /\ [](loading = FALSE <=> pc \in Ended)
    /\ [][loading = FALSE => loading' = FALSE]_vars
    /\ [][pc' = "tables_fetch" => pc = "tables_fetch"]_vars
    /\ <>(loading = FALSE)

\* The cycle ended by publishing rows and loading is false.
C24_Witness ==
    /\ pc = "published"
    /\ loading = FALSE
    /\ tables = <<"popular_songs">>
    /\ Len(recentlyPlayed) = MaxTableRows

\* One record per row of the table (at most 10, in order), each column
\* holding the trimmed cell.
RecordsOfTable(t) ==
    [i \in 1..Min(Len(t.rows), 10) |->
        [c \in {t.cols[j] : j \in 1..Len(t.cols)} |->
            Str(trim(t.rows[i][CHOOSE j \in 1..Len(t.cols) : t.cols[j] = c]))]]

\* C25 as claimed: when psql succeeds, GET /api/db?table=T answers one
\* record per data line of the result, in output order, whatever the cells
\* contain.
C25_OneRecordPerDataLine ==
    (request.method = "GET" /\ request.path = "/api/db" /\ psql = "ok")
    => response.body.data = RecordsOfTable(TableOf(request.table))

\* The names of the tables of a database.
NamesIn(db) == {db[i].name : i \in 1..Len(db)}

\* C28: resetDatabase lists and drops tables only after both prompts were
\* answered yes, in order; after a declined prompt no table changes; tables
\* go one at a time, and after a failure nothing more is dropped and
\* nothing dropped comes back.
C28_ResetNeedsBothConfirmations ==
    /\ [](cli \in {"listing", "dropping", "done", "failed"} => answers = <<TRUE, TRUE>>)
    /\ [][database' # database =>
              /\ cli = "dropping" /\ answers = <<TRUE, TRUE>>
              /\ NamesIn(database') \subseteq NamesIn(database)
              /\ Cardinality(NamesIn(database) \ NamesIn(database')) <= 1]_vars
    /\ [][(\E i \in 1..Len(answers) : ~answers[i]) =>
              (cli' = "cancelled" /\ database' = database)]_vars
    /\ [][cli = "failed" =>
              (cli' = "failed" /\ toDrop' = toDrop /\ database' = database)]_vars

\* Both prompts were confirmed, made_for_you was dropped, and the drop of
\* recently_played failed: the table is still there and made_for_you is
\* not back.
C28_Witness ==
    /\ cli = "failed"
    /\ answers = <<TRUE, TRUE>>
    /\ toDrop = <<"recently_played">>
    /\ NamesIn(database) = {"recently_played"}

\* Polling variant: the call that ended last, what is displayed, and what
\* a call that ended computed from its own locals.
LastCompleted == cycles[completed[Len(completed)]]

PollShown ==
    [recentlyPlayedData |-> recentlyPlayed, madeForYouData |-> madeForYou,
     popularAlbumsData |-> popularAlbums]

PollResult(cy) ==
    IF cy.pc = "published" THEN pollShelves(cy.allData, cy.x) ELSE NoShelves

ShownRecords == recentlyPlayed \o madeForYou \o popularAlbums

\* The places (table, row index) of the rows a call received, and the row
\* at a place.
ReceivedPlaces(cy) ==
    UNION {{<<cy.received[k].name, i>> : i \in 1..Len(cy.received[k].data)} :
           k \in 1..Len(cy.received)}

ReceivedRow(cy, place) ==
    cy.received[CHOOSE k \in 1..Len(cy.received) :
                    cy.received[k].name = place[1]].data[place[2]]

\* `item` is the record of `row` (the random duration aside).
RecordOfRow(item, row) ==
    \A f \in {"id", "title", "artist", "album", "image"} :
        item.rec[f] = pollMappedItem(row, 0).rec[f]

\* The shelves hold only rows the last completed call received, each at
\* most once.
OnlyOwnRows ==
    /\ \A k \in 1..Len(ShownRecords) :
          /\ ShownRecords[k].src \in ReceivedPlaces(LastCompleted)
          /\ RecordOfRow(ShownRecords[k], ReceivedRow(LastCompleted, ShownRecords[k].src))
    /\ \A j, k \in 1..Len(ShownRecords) :
          j # k => ShownRecords[j].src # ShownRecords[k].src

C22_LastCompletedIsShown ==
    completed # <<>> => PollShown = PollResult(LastCompleted)

\* The second call ended first; the first call ended after it and its
\* result, not the newer one, is displayed.
C22_Witness ==
    /\ completed = <<2, 1>>
    /\ cycles[1].pc = "published"
    /\ cycles[2].pc = "published"
    /\ PollResult(cycles[1]) # PollResult(cycles[2])
    /\ PollShown = PollResult(cycles[1])
    /\ recentlyPlayed # <<>>

---------------------------------------------------------------------------
(* Properties of the agent.                                                *)

\* updateFile of the file at hand is settled and processQuery has not yet
\* resumed.
UpdateSettled == agent.pc = "ts_returned"

\* How that call of updateFile ended.
Outcome == agent.outcomes[Len(agent.outcomes)]

\* The target existed when updateFile was called.
Existed == tsFile.file \in DOMAIN agent.before

UpdateStages == {"ts_access", "ts_backup", "ts_write", "ts_validate", "ts_restore",
                 "ts_returned"}

\* C27 as claimed: an existing target holds new content only while a
\* backup copy with its previous content exists, made by this call; when
\* the backup copy fails the target is left as it was.
C27_OverwritesOnlyWithBackup ==
    (agent.pc \in UpdateStages /\ Existed
        /\ files[tsFile.file] # agent.before[tsFile.file]) =>
       /\ agent.backupPath = backupOf(tsFile.file)
       /\ agent.backupPath \in DOMAIN files
       /\ files[agent.backupPath] = agent.before[tsFile.file]

\* No extracted SQL command failed and every call of updateFile returned.
AllSucceeded ==
    /\ agent.failed # "sql"
    /\ \A i \in 1..Len(agent.outcomes) : agent.outcomes[i] = "returned"

\* C29 as claimed: with the completion received, psql reachable, every
\* extracted SQL command and every file update successful, processQuery
\* does not throw, whichever tables the database holds.
C29_ResolvesWhenAllSucceed ==
    (agent.pc = "threw" /\ AllSucceeded) =>
       agent.failed \in {"api_key", "openai", "verify_connection"}

\* The database after commands 1..n of `commands` were run on db, each
\* result feeding the next.
RECURSIVE ranFrom(_, _, _)
ranFrom(db, commands, n) ==
    IF n = 0 THEN db
    ELSE runSql(ranFrom(db, commands, n - 1), commands[n]).db

\* The commands processQuery has had psql run, step 5 left aside.
Executed == SelectSeq(sqlLog, LAMBDA command : command # VerifyCommand)

\* Step 4 or a later step was entered.
PastSql == agent.pc \in UpdateStages \cup {"cleanup", "verify", "done"}
              \/ (agent.pc = "threw" /\ agent.failed \in {"verify", "verify_connection"})

\* C30: the extracted commands are run in extraction order, all of them
\* before the first file operation; when the k-th fails processQuery
\* throws with commands 1..k run and no other (a failed command is the
\* last one run), no file written, and the database as commands 1..k-1
\* left it.
C30_SqlInOrderBeforeFiles ==
    /\ Len(Executed) <= Len(agent.sqlCommands)
    /\ Executed = SubSeq(agent.sqlCommands, 1, Len(Executed))
    /\ agent.pc = "sql" =>
          /\ Len(Executed) = agent.k - 1
          /\ database = ranFrom(agent.db0, agent.sqlCommands, agent.k - 1)
    /\ \A i \in 1..Len(Executed) :
          ~runSql(ranFrom(agent.db0, agent.sqlCommands, i - 1),
                  agent.sqlCommands[i]).ok =>
             /\ i = Len(Executed)
             /\ agent.pc = "threw"
             /\ agent.failed = "sql"
             /\ agent.k = i
    /\ files # agent.files0 => Executed = agent.sqlCommands
    /\ PastSql => Executed = agent.sqlCommands
    /\ (agent.pc = "threw" /\ agent.failed = "sql") =>
          /\ files = agent.files0
          /\ agent.outcomes = <<>>
          /\ Len(Executed) \in {agent.k - 1, agent.k}
          /\ database = ranFrom(agent.db0, agent.sqlCommands, agent.k - 1)

\* The second of three commands (an INSERT into a table that does not
\* exist) failed after the CREATE TABLE before it took effect; the DROP
\* after it was not run and the route file named by the response was not
\* written.
C30_Witness ==
    /\ agent.pc = "threw"
    /\ agent.failed = "sql"
    /\ agent.k = 2
    /\ Len(agent.sqlCommands) = 3
    /\ Executed = SubSeq(agent.sqlCommands, 1, 2)
    /\ database # agent.db0
    /\ database = runSql(agent.db0, agent.sqlCommands[1]).db
    /\ Len(extractTypeScriptCode(agent.aiResponse)) = 1
    /\ files = agent.files0

=============================================================================
